---- MODULE Spec2Model ----
(***************************************************************************)
(* Model of idlemypyextension: the signature annotation synthesizer of     *)
(* annotate.py (tokenize, tokenize_definition, Parser, get_typevalue_repr, *)
(* get_annotation).                                                        *)
(*                                                                         *)
(* Text is a sequence of atoms.  An atom is one lexeme of the source       *)
(* (an identifier, a number, a string literal, a comment, an operator) or  *)
(* one blank or one line terminator.  String concatenation of the code is  *)
(* sequence concatenation; the input sets never contain two identifier     *)
(* atoms that touch, so equality of atom sequences is equality of the      *)
(* strings they spell.                                                     *)
(***************************************************************************)
EXTENDS Integers, Sequences, FiniteSets, TLC

(***************************************************************************)
(* Atoms                                                                   *)
(***************************************************************************)
SP == " "
NLCH == "\n"
NONE == <<"<None>">>
\* the backtick character of type-variable ids
BQ == "<bq>"

NumberAtoms == {"1", "2", "3"}
StringAtoms == {"'s'"}
CommentAtoms == {"#c"}
OpAtoms ==
    {"(", ")", "[", "]", "{", "}", ",", ":", "->", "*", "**", "/", "//",
     "=", "+", "-", "~", ".", "|", "...", "@", "%", "^", ">>", "<<", "&",
     "==", "<"}

IsSpace(a) == a = SP
IsNumber(a) == a \in NumberAtoms
IsString(a) == a \in StringAtoms
IsComment(a) == a \in CommentAtoms
IsOp(a) == a \in OpAtoms
\* the word class of the regular expressions: identifiers and numbers
IsWord(a) ==
    /\ ~IsSpace(a) /\ a # NLCH /\ a # BQ /\ a # "?"
    /\ ~IsOp(a) /\ ~IsString(a) /\ ~IsComment(a)

(***************************************************************************)
(* Sequence helpers for str methods                                        *)
(***************************************************************************)
Last(s) == s[Len(s)]
Front(s) == SubSeq(s, 1, Len(s) - 1)
Drop(s, n) == SubSeq(s, n + 1, Len(s))
Take(s, n) == SubSeq(s, 1, n)
Contains(s, a) == \E k \in 1..Len(s) : s[k] = a
FirstIndex(s, a) == CHOOSE k \in 1..Len(s) : s[k] = a /\ \A j \in 1..(k - 1) : s[j] # a
Remove(s, a) == SelectSeq(s, LAMBDA x : x # a)
StartsWith(s, p) == Len(s) >= Len(p) /\ Take(s, Len(p)) = p
Spaces(n) == [k \in 1..n |-> SP]

RECURSIVE Rstrip(_)
Rstrip(s) == IF s # <<>> /\ (Last(s) = SP \/ Last(s) = NLCH) THEN Rstrip(Front(s)) ELSE s

RECURSIVE Join(_, _)
\* sep.join(parts)
Join(sep, parts) ==
    IF parts = <<>> THEN <<>>
    ELSE IF Len(parts) = 1 THEN parts[1]
    ELSE parts[1] \o sep \o Join(sep, Tail(parts))

(***************************************************************************)
(* Token classes of annotate.py and their isinstance relation              *)
(***************************************************************************)
Bases ==
    [Token |-> {"Token"},
     LambdaBody |-> {"LambdaBody", "Token"},
     Name |-> {"Name", "Token"},
     FunctionName |-> {"FunctionName", "Token"},
     ArgumentName |-> {"ArgumentName", "Name", "Token"},
     Operator |-> {"Operator", "Token"},
     DottedName |-> {"DottedName", "Name", "Token"},
     ArgumentDefault |-> {"ArgumentDefault", "DottedName", "Name", "Token"},
     Separator |-> {"Separator", "Operator", "Token"},
     EndSeparator |-> {"EndSeparator", "Separator", "Operator", "Token"},
     Colin |-> {"Colin", "Separator", "Operator", "Token"},
     TypeDef |-> {"TypeDef", "Colin", "Separator", "Operator", "Token"},
     DefaultDef |-> {"DefaultDef", "Separator", "Operator", "Token"},
     Keyword |-> {"Keyword", "Name", "Token"},
     ReturnTypeDef |-> {"ReturnTypeDef", "Separator", "Operator", "Token"},
     Definition |-> {"Definition", "Keyword", "Name", "Token"},
     EndDefinition |-> {"EndDefinition", "Colin", "Separator", "Operator", "Token"},
     End |-> {"End", "Token"}]

Tok(cls, text) == [cls |-> cls, text |-> text]
End == Tok("End", NONE)
isinstance(token, cls) == cls \in Bases[token.cls]

(***************************************************************************)
(* tokenize: the type-expression lexer                                     *)
(***************************************************************************)
IsHead(a) == IsWord(a) \/ a = "-" \/ a = BQ
IsTail(a) == IsWord(a) \/ a = "-" \/ a = "/"
IsBlank(a) == a = SP \/ a = NLCH
InClass(class, a) ==
    CASE class = "head" -> IsHead(a)
      [] class = "tail" -> IsTail(a)
      [] class = "blank" -> IsBlank(a)
      [] class = "blank1" -> a = SP

\* bind a computed value to a name: In(value)
Let(value, In(_)) == In(value)

RECURSIVE RunWhile(_, _, _)
\* first index >= k of txt whose atom is not of the class (Len+1 if none)
RunWhile(txt, k, class) ==
    IF k <= Len(txt) /\ InClass(class, txt[k]) THEN RunWhile(txt, k + 1, class) ELSE k

RECURSIVE PatternGroups(_, _)
\* the repeated group of TOKENIZE_PATTERN matched greedily from index k; the index after the match
PatternGroups(txt, k) ==
    Let(RunWhile(txt, k, "blank"), LAMBDA q :
      IF q <= Len(txt) /\ txt[q] \in {".", ":"}
      THEN PatternGroups(txt, RunWhile(txt, RunWhile(txt, q + 1, "blank"), "tail"))
      ELSE k)

\* len(match_.group(0)) of TOKENIZE_PATTERN.match(txt), 0 when there is no match
TOKENIZE_PATTERN(txt) ==
    Let(RunWhile(txt, 1, "head"), LAMBDA h :
      IF h = 1 THEN 0 ELSE PatternGroups(txt, h) - 1)

\* FullName without the replacement of the names that hold "-" or "/"
FullName_KeepsBadNames(matched) ==
    Let(Remove(matched, SP), LAMBDA f0 :
      Let(IF Contains(f0, BQ) THEN Take(f0, FirstIndex(f0, BQ) - 1) ELSE f0, LAMBDA f1 :
        IF StartsWith(f1, <<"pytz", ".", "tzfile", ".">>)
        THEN <<"datetime", ".", "tzinfo">> ELSE f1))

\* the name a matched run is turned into
FullName(matched) ==
    Let(Remove(matched, SP), LAMBDA f0 :
      Let(IF Contains(f0, BQ) THEN Take(f0, FirstIndex(f0, BQ) - 1) ELSE f0, LAMBDA f1 :
        Let(IF StartsWith(f1, <<"pytz", ".", "tzfile", ".">>)
            THEN <<"datetime", ".", "tzinfo">> ELSE f1, LAMBDA f2 :
          IF Contains(f2, "-") \/ Contains(f2, "/") THEN <<"Any">> ELSE f2)))

RECURSIVE TokenizeLoop(_, _)
TokenizeLoop(txt, tokens) ==
    IF txt = <<>> THEN [err |-> "", tokens |-> Append(tokens, End)]
    ELSE IF txt[1] \in {SP, NLCH} THEN TokenizeLoop(Tail(txt), tokens)
    ELSE IF txt[1] \in {"(", ")", "[", "]", ",", "*"}
    THEN TokenizeLoop(Tail(txt), Append(tokens, Tok("Separator", <<txt[1]>>)))
    ELSE IF txt[1] = "->"
    THEN TokenizeLoop(Tail(txt), Append(tokens, Tok("Separator", <<"->">>)))
    ELSE IF txt[1] = "..."
    THEN TokenizeLoop(Tail(txt), Append(tokens, Tok("DottedName", <<"...">>)))
    ELSE Let(TOKENIZE_PATTERN(txt), LAMBDA size :
           IF size = 0 THEN [err |-> "ParseError", tokens |-> tokens]
           ELSE TokenizeLoop(Drop(txt, size),
                             Append(tokens, Tok("DottedName", FullName(Take(txt, size))))))

tokenize(txt) == TokenizeLoop(Remove(txt, "?"), <<>>)

(***************************************************************************)
(* TypeValue and its renderer                                              *)
(***************************************************************************)
TypeValue(name, args) == [name |-> name, args |-> args]

TYPING_LOWER ==
    {<<"List">>, <<"Set">>, <<"Type">>, <<"Dict">>, <<"Tuple">>, <<"Overload">>}

\* str.lower() on the names of TYPING_LOWER
lower(text) ==
    CASE text = <<"List">> -> <<"list">>
      [] text = <<"Set">> -> <<"set">>
      [] text = <<"Type">> -> <<"type">>
      [] text = <<"Dict">> -> <<"dict">>
      [] text = <<"Tuple">> -> <<"tuple">>
      [] text = <<"Overload">> -> <<"overload">>
      [] OTHER -> text

\* the round without "if text in TYPING_LOWER: return text.lower()"
TypeReprAt_NoLower(name, separator, ignore_modules) ==
    IF ~Contains(name, separator) THEN <<FALSE, name>>
    ELSE Let(FirstIndex(name, separator), LAMBDA k :
           Let(Take(name, k - 1), LAMBDA module :
             Let(Drop(name, k), LAMBDA text :
               IF module \in {<<"typing">>, <<"mypy_extensions">>} \/ module \in ignore_modules
               THEN <<TRUE, text>>
               ELSE <<FALSE, name>>)))

\* one round of the "for separator" loop: <<TRUE, value>> when it returns
TypeReprAt(name, separator, ignore_modules) ==
    IF ~Contains(name, separator) THEN <<FALSE, name>>
    ELSE Let(FirstIndex(name, separator), LAMBDA k :
           Let(Take(name, k - 1), LAMBDA module :
             Let(Drop(name, k), LAMBDA text :
               IF module \in {<<"typing">>, <<"mypy_extensions">>}
               THEN <<TRUE, IF text \in TYPING_LOWER THEN lower(text) ELSE text>>
               ELSE IF module \in ignore_modules THEN <<TRUE, text>>
               ELSE <<FALSE, name>>)))

get_type_repr(name, ignore_modules) ==
    Let(TypeReprAt(name, ".", ignore_modules), LAMBDA dot :
      IF dot[1] THEN dot[2]
      ELSE Let(TypeReprAt(name, ":", ignore_modules), LAMBDA col :
             IF col[1] THEN col[2] ELSE name))

RECURSIVE get_typevalue_repr(_, _)
get_typevalue_repr(typevalue, ignore_modules) ==
    Let(get_type_repr(typevalue.name, ignore_modules), LAMBDA name0 :
      Let(IF name0 \in TYPING_LOWER THEN lower(name0) ELSE name0, LAMBDA name :
        Let([k \in 1..Len(typevalue.args) |->
                get_typevalue_repr(typevalue.args[k], ignore_modules)], LAMBDA args :
          IF args = <<>> THEN (IF name # <<>> THEN name ELSE <<"[", "]">>)
          ELSE IF name = <<"Union">> THEN Join(<<SP, "|", SP>>, args)
          ELSE IF name = <<"__hacks_DictItem">> THEN Join(<<":", SP>>, args)
          ELSE name \o <<"[">> \o Join(<<",", SP>>, args) \o <<"]">>)))

\* TypeValue.__str__
str(typevalue) == get_typevalue_repr(typevalue, {})

(***************************************************************************)
(* Parser: a cursor i (0-based) into a token list.  Every method returns   *)
(* [err, i, v]: err is the ParseError message ("" when none was raised),   *)
(* i the cursor afterwards and v the value returned.                       *)
(***************************************************************************)
Ok(i, v) == [err |-> "", i |-> i, v |-> v]
\* Parser.fail
\* an error message is the literal text before the first formatted value
fail(i, error) == [err |-> error, i |-> i, v |-> <<>>]

\* a raised ParseError propagates; otherwise the statements after the call run
Then(r, Rest(_)) == IF r.err # "" THEN r ELSE Rest(r)

\* self.tokens[self.i]: a negative index counts from the end of the list
peek(tokens, i) ==
    IF i >= Len(tokens) THEN fail(i, "Ran out of tokens")
    ELSE Ok(i, tokens[IF i < 0 THEN Len(tokens) + i + 1 ELSE i + 1])

next(tokens, i) == Then(peek(tokens, i), LAMBDA p : Ok(i + 1, p.v))

lookup(tokens, i) ==
    Then(peek(tokens, i),
         LAMBDA p : Ok(i, IF p.v.text = NONE THEN <<"None">> ELSE p.v.text))

expect(tokens, i, text) ==
    Then(next(tokens, i),
         LAMBDA n : IF n.v.text # text THEN fail(n.i, "Expected") ELSE Ok(n.i, <<>>))

expect_option(tokens, i, options) ==
    Then(next(tokens, i),
         LAMBDA n : IF n.v.text \notin options THEN fail(n.i, "Expected")
                    ELSE Ok(n.i, n.v.text))

expect_type(tokens, i, token_type) ==
    Then(next(tokens, i),
         LAMBDA n : IF ~isinstance(n.v, token_type) THEN fail(n.i, "Expected") ELSE n)

count_unprocessed_tokens(tokens, i) == Len(tokens) - i
rest_tokens(tokens, i) == SubSeq(tokens, i + 1, Len(tokens))

RECURSIVE read_dotted_name_with_spaces(_, _, _)
read_dotted_name_with_spaces(tokens, i, add) ==
    Then(expect_type(tokens, i, "DottedName"),
         LAMBDA t :
            IF count_unprocessed_tokens(tokens, t.i) > 0
               /\ isinstance(tokens[t.i + 1], "DottedName")
            THEN read_dotted_name_with_spaces(tokens, t.i, add \o t.v.text \o <<SP>>)
            ELSE Ok(t.i, Tok("DottedName", add \o t.v.text)))

parse_lambda(tokens, i) ==
    Then(expect_type(tokens, i, "LambdaBody"), LAMBDA b : Ok(b.i, b.v.text))

RECURSIVE parse_type(_, _)
RECURSIVE parse_single(_, _)
RECURSIVE ParseTypeListLoop(_, _, _)
RECURSIVE ParseDictOrSetLoop(_, _, _, _)
RECURSIVE ParseUnionListLoop(_, _, _)

\* the while loop of parse_type_list
ParseTypeListLoop(tokens, i, types) ==
    Then(lookup(tokens, i), LAMBDA l :
      IF l.v \in {<<")">>, <<"]">>} THEN Ok(i, types)
      ELSE Then(parse_type(tokens, i), LAMBDA t :
             Then(lookup(tokens, t.i), LAMBDA s :
               IF s.v = <<",">>
               THEN ParseTypeListLoop(tokens, t.i + 1, Append(types, t.v))
               ELSE Then(expect_option(tokens, t.i, {<<")">>, <<"]">>}), LAMBDA e :
                      ParseTypeListLoop(tokens, e.i - 1, Append(types, t.v))))))

parse_type_list(tokens, i) == ParseTypeListLoop(tokens, i, <<>>)

\* one item of parse_type_dict_or_set after its first type t; is_dict as decided
DictOrSetItem(tokens, t, is_dict) ==
    IF is_dict
    THEN Then(expect(tokens, t.i, <<":">>), LAMBDA c :
           Then(parse_type(tokens, c.i), LAMBDA v :
             Ok(v.i, TypeValue(<<"__hacks_DictItem">>, <<t.v, v.v>>))))
    ELSE t

\* the while loop of parse_type_dict_or_set; which: 0 unknown, 1 dict, 2 set
ParseDictOrSetLoop(tokens, i, types, which) ==
    Then(lookup(tokens, i), LAMBDA l :
      IF l.v = <<"}">> THEN Ok(i, types)
      ELSE Then(parse_type(tokens, i), LAMBDA t :
             Then(IF which = 0 THEN lookup(tokens, t.i) ELSE Ok(t.i, <<>>), LAMBDA w0 :
               Let(IF which = 0 THEN (IF w0.v = <<":">> THEN 1 ELSE 2) ELSE which, LAMBDA w :
                 Then(DictOrSetItem(tokens, t, w = 1), LAMBDA item :
                   Then(lookup(tokens, item.i), LAMBDA s :
                     IF s.v = <<",">>
                     THEN ParseDictOrSetLoop(tokens, item.i + 1, Append(types, item.v), w)
                     ELSE Then(expect(tokens, item.i, <<"}">>), LAMBDA e :
                            ParseDictOrSetLoop(tokens, e.i - 1,
                                               Append(types, item.v), w))))))))

parse_type_dict_or_set(tokens, i) == ParseDictOrSetLoop(tokens, i, <<>>, 0)

parse_type_collection(tokens, i, start_collection) ==
    IF start_collection \in {<<"(">>, <<"[">>} THEN parse_type_list(tokens, i)
    ELSE IF start_collection = <<"{">> THEN parse_type_dict_or_set(tokens, i)
    ELSE fail(i, "Unhandled collection start")

\* the while loop of parse_union_list
ParseUnionListLoop(tokens, i, types) ==
    Then(parse_single(tokens, i), LAMBDA t :
      Then(lookup(tokens, t.i), LAMBDA l :
        IF l.v # <<"|">> THEN Ok(t.i, Append(types, t.v))
        ELSE ParseUnionListLoop(tokens, t.i + 1, Append(types, t.v))))

parse_union_list(tokens, i) == ParseUnionListLoop(tokens, i, <<>>)

\* expect(open); args = parse_type_list(); expect(close)
Bracketed(tokens, i, open, close) ==
    Then(expect(tokens, i, <<open>>), LAMBDA o :
      Then(parse_type_list(tokens, o.i), LAMBDA a :
        Then(expect(tokens, a.i, <<close>>), LAMBDA c : Ok(c.i, a.v))))

\* TypeValue(name, args) of a bracketed argument list
Applied(tokens, i, open, close, name) ==
    Then(Bracketed(tokens, i, open, close), LAMBDA b : Ok(b.i, TypeValue(name, b.v)))

\* ParseUnion where a Union of one item is kept as a Union
ParseUnion_KeepsSingle(tokens, i, text) ==
    Then(Bracketed(tokens, i, "[", "]"), LAMBDA b :
      IF Len(b.v) = 0 THEN fail(b.i, "No items in Union")
      ELSE Ok(b.i, TypeValue(text, b.v)))

\* the branch of parse_single for the name "Union"
ParseUnion(tokens, i, text) ==
    Then(Bracketed(tokens, i, "[", "]"), LAMBDA b :
      IF Len(b.v) = 1 THEN Ok(b.i, b.v[1])
      ELSE IF Len(b.v) = 0 THEN fail(b.i, "No items in Union")
      ELSE Ok(b.i, TypeValue(text, b.v)))

\* the last branch of parse_single: a generic application or a leaf
ParseGeneric(tokens, i, text) ==
    Then(lookup(tokens, i), LAMBDA l :
      IF l.v = <<"[">>
      THEN Then(Bracketed(tokens, i, "[", "]"), LAMBDA b :
             IF text = <<"Optional">> /\ Len(b.v) = 1
             THEN Ok(b.i, TypeValue(<<"Union">>, <<b.v[1], TypeValue(<<"None">>, <<>>)>>))
             ELSE Ok(b.i, TypeValue(text, b.v)))
      ELSE Ok(i, TypeValue(text, <<>>)))

\* parse_single once the dotted name text has been read, cursor at i
ParseNamed(tokens, i, text) ==
    IF text = <<"Any">> THEN Ok(i, TypeValue(<<"Any">>, <<>>))
    ELSE IF text \in {<<"mypy_extensions", ".", "NoReturn">>,
                      <<"typing", ".", "NoReturn">>}
    THEN Ok(i, TypeValue(<<"NoReturn">>, <<>>))
    ELSE IF text = <<"Tuple">> THEN Applied(tokens, i, "[", "]", text)
    ELSE IF text = <<"Union">> THEN ParseUnion(tokens, i, text)
    ELSE IF text = <<"lambda">>
    THEN Then(parse_lambda(tokens, i), LAMBDA b :
           Ok(b.i, TypeValue(text \o <<SP>> \o b.v, <<>>)))
    ELSE IF text = <<"Overload">> THEN Applied(tokens, i, "(", ")", text)
    ELSE ParseGeneric(tokens, i, text)

parse_single(tokens, i) ==
    Then(lookup(tokens, i), LAMBDA l :
      IF l.v = <<"[">> THEN Applied(tokens, i, "[", "]", <<>>)
      ELSE Then(read_dotted_name_with_spaces(tokens, i, <<>>), LAMBDA d :
             ParseNamed(tokens, d.i, d.v.text)))

parse_type(tokens, i) ==
    Then(parse_single(tokens, i), LAMBDA t :
      Then(lookup(tokens, t.i), LAMBDA l :
        IF l.v = <<"|">>
        THEN Then(parse_union_list(tokens, t.i + 1), LAMBDA u :
               Ok(u.i, TypeValue(<<"Union">>, <<t.v>> \o u.v)))
        ELSE t))

(***************************************************************************)
(* tokenize.generate_tokens(read_line): the source tokenizer the           *)
(* definition lexer pulls from.  The generator state is                    *)
(*   line, pos  the physical line being scanned and the next index in it   *)
(*   last_line  the line read before it                                    *)
(*   parenlev   open brackets; indents  the indentation stack              *)
(*   pending    tokens already produced and not yet yielded                *)
(*   finished   the generator is exhausted                                 *)
(* A TokenInfo is [type, string, follow]: follow is the character right    *)
(* after the token in token.line, "" when the token ends its line.         *)
(***************************************************************************)
TokenInfo(type, string, follow) == [type |-> type, string |-> string, follow |-> follow]

get_line_indent(text) == RunWhile(text, 1, "blank1") - 1

\* get_line of the callers: the text of a 0-based line, "" past the end
get_line(src, line_no) ==
    IF line_no >= 0 /\ line_no < Len(src) THEN src[line_no + 1] ELSE <<>>

NewGenerator ==
    [line |-> <<>>, pos |-> 1, last_line |-> <<>>, parenlev |-> 0,
     indents |-> <<0>>, pending |-> <<>>, finished |-> FALSE]

AtomType(a) ==
    CASE IsNumber(a) -> "NUMBER"
      [] IsString(a) -> "STRING"
      [] IsComment(a) -> "COMMENT"
      [] IsOp(a) -> "OP"
      [] OTHER -> "NAME"

FollowOf(line, k) == IF k + 1 <= Len(line) THEN line[k + 1] ELSE ""

\* line.strip().startswith("#")
StartsWithComment(line) ==
    Let(RunWhile(line, 1, "blank1"), LAMBDA k : k <= Len(line) /\ IsComment(line[k]))

\* the tokens yielded when the source ends outside brackets
FinalTokens(gen) ==
    (IF gen.last_line # <<>> /\ Last(gen.last_line) # NLCH
        /\ ~StartsWithComment(gen.last_line)
     THEN <<TokenInfo("NEWLINE", <<>>, "")>> ELSE <<>>)
    \o [k \in 1..(Len(gen.indents) - 1) |-> TokenInfo("DEDENT", <<>>, "")]
    \o <<TokenInfo("ENDMARKER", <<>>, "")>>

RECURSIVE Dedents(_, _)
\* pop the indentation levels above column: <<ok, indents, tokens>>
Dedents(indents, column) ==
    IF column >= Last(indents) THEN <<TRUE, indents, <<>>>>
    ELSE IF ~Contains(indents, column) THEN <<FALSE, indents, <<>>>>
    ELSE Let(Dedents(Front(indents), column), LAMBDA d :
           <<d[1], d[2], <<TokenInfo("DEDENT", <<>>, "")>> \o d[3]>>)

\* the token type of the atom a met at bracket depth parenlev
ScanType(a, parenlev) ==
    IF a = NLCH THEN (IF parenlev > 0 THEN "NL" ELSE "NEWLINE") ELSE AtomType(a)

\* the bracket depth after the token a of the given type
ScanLevel(a, type, parenlev) ==
    IF type = "OP" /\ a \in {"(", "[", "{"} THEN parenlev + 1
    ELSE IF type = "OP" /\ a \in {")", "]", "}"} THEN parenlev - 1
    ELSE parenlev

\* the token at index p of the line being scanned
ScanToken(gen, current_line_no, p, a, type) ==
    [kind |-> "token", token |-> TokenInfo(type, <<a>>, FollowOf(gen.line, p)),
     gen |-> [gen EXCEPT !.pos = p + 1, !.parenlev = ScanLevel(a, type, gen.parenlev)],
     current_line_no |-> current_line_no]

RECURSIVE GenNext(_, _, _)

\* a line was read outside brackets: g is the generator holding it, column its indentation
ReadOutside(src, g, lno, line, column) ==
    IF line = <<>> \/ column = Len(line)
    THEN GenNext(src, [g EXCEPT !.pending = FinalTokens(g), !.pos = Len(line) + 1], lno)
    ELSE IF IsComment(line[column + 1]) \/ line[column + 1] = NLCH
    THEN GenNext(src,
           [g EXCEPT !.pos = Len(line) + 1,
                     !.pending =
                        (IF IsComment(line[column + 1])
                         THEN <<TokenInfo("COMMENT", <<line[column + 1]>>,
                                          FollowOf(line, column + 1))>>
                         ELSE <<>>)
                        \o <<TokenInfo("NL", <<NLCH>>, "")>>], lno)
    ELSE IF column > Last(g.indents)
    THEN GenNext(src,
           [g EXCEPT !.pos = column + 1,
                     !.indents = Append(@, column),
                     !.pending = <<TokenInfo("INDENT", Take(line, column),
                                             line[column + 1])>>], lno)
    ELSE Let(Dedents(g.indents, column), LAMBDA d :
           IF ~d[1]
           THEN [kind |-> "IndentationError", token |-> <<>>, gen |-> g,
                 current_line_no |-> lno]
           ELSE GenNext(src, [g EXCEPT !.pos = column + 1, !.indents = d[2],
                                       !.pending = d[3]], lno))

\* read_line() returned line
ReadLine(src, gen, lno, line) ==
    Let([gen EXCEPT !.last_line = gen.line, !.line = line, !.pos = 1], LAMBDA g :
      IF gen.parenlev = 0
      THEN ReadOutside(src, g, lno, line, RunWhile(line, 1, "blank1") - 1)
      ELSE IF line = <<>>
      THEN [kind |-> "TokenError", token |-> <<>>, gen |-> g, current_line_no |-> lno]
      ELSE GenNext(src, g, lno))

\* next(token_generator): [kind, token, gen, current_line_no]; kind is "token",
\* "stop" (generator exhausted) or the exception raised by the tokenizer
GenNext(src, gen, current_line_no) ==
    IF gen.finished
    THEN [kind |-> "stop", token |-> <<>>, gen |-> gen, current_line_no |-> current_line_no]
    ELSE IF gen.pending # <<>>
    THEN [kind |-> "token", token |-> Head(gen.pending),
          gen |-> [gen EXCEPT !.pending = Tail(@),
                              !.finished = Head(gen.pending).type = "ENDMARKER"],
          current_line_no |-> current_line_no]
    ELSE Let(RunWhile(gen.line, gen.pos, "blank1"), LAMBDA p :
           IF p <= Len(gen.line)
           THEN ScanToken(gen, current_line_no, p, gen.line[p],
                          ScanType(gen.line[p], gen.parenlev))
           ELSE ReadLine(src, gen, current_line_no + 1, get_line(src, current_line_no)))

(***************************************************************************)
(* read_lambda                                                             *)
(***************************************************************************)
RECURSIVE ReadLambdaLoop(_, _, _, _, _, _)

\* the body of the for loop of read_lambda for one token: the token's string as it
\* is appended (string), the bracket depth (b) and has_args (h) after it
LambdaToken(src, r, text, string, b, h) ==
    IF r.token.follow # "" /\ r.token.follow \in {",", NLCH} /\ h /\ b = 0
    THEN [kind |-> "ok", msg |-> "", body |-> text \o string, over_read |-> FALSE,
          gen |-> r.gen, current_line_no |-> r.current_line_no]
    ELSE IF r.token.follow # "" /\ string = <<")">> /\ h /\ b <= 0
    THEN [kind |-> "ok", msg |-> "", body |-> Front(text \o string), over_read |-> TRUE,
          gen |-> r.gen, current_line_no |-> r.current_line_no]
    ELSE ReadLambdaLoop(src, r.gen, r.current_line_no, text \o string, b, h)

\* which branch of the if/elif chain of read_lambda an OP token takes
LambdaBranch(token) ==
    IF token.type # "OP" THEN "other"
    ELSE IF token.string \in {<<"(">>, <<"[">>, <<"{">>} THEN "open"
    ELSE IF token.string \in {<<")">>, <<"]">>, <<"}">>} THEN "close"
    ELSE IF token.string = <<":">> THEN "colon"
    ELSE IF token.string = <<",">> THEN "comma"
    ELSE "other"

\* the for loop of read_lambda: [kind, body, over_read, gen, current_line_no]
ReadLambdaLoop(src, gen, current_line_no, text, brackets, has_args) ==
    Let(GenNext(src, gen, current_line_no), LAMBDA r :
      IF r.kind = "stop"
      THEN [kind |-> "ParseError", msg |-> "Reading lambda failed", body |-> <<>>,
            over_read |-> FALSE, gen |-> r.gen, current_line_no |-> r.current_line_no]
      ELSE IF r.kind # "token"
      THEN [kind |-> r.kind, msg |-> "", body |-> <<>>, over_read |-> FALSE, gen |-> r.gen,
            current_line_no |-> r.current_line_no]
      ELSE Let(LambdaBranch(r.token), LAMBDA branch :
             LambdaToken(src, r, text,
                IF branch \in {"colon", "comma"} THEN r.token.string \o <<SP>>
                ELSE r.token.string,
                IF branch = "open" THEN brackets + 1
                ELSE IF branch = "close" THEN brackets - 1 ELSE brackets,
                has_args \/ branch = "colon")))

read_lambda(src, gen, current_line_no) ==
    ReadLambdaLoop(src, gen, current_line_no, <<>>, 0, FALSE)

(***************************************************************************)
(* tokenize_definition: the frame td holds its locals                      *)
(*   start_line, current_line_no, hasdef, defstart, brackets, typedef,     *)
(*   default_arg, indent, tokens, token_generator                          *)
(* and exc/msg (the exception leaving the loop body, "" for none), done    *)
(* (the loop was left), reads (the arguments get_line was called with) and *)
(* lookaheads (how many of them came from the NL/NEWLINE branch).          *)
(***************************************************************************)
NewFrame(start_line) ==
    [start_line |-> start_line, current_line_no |-> start_line,
     hasdef |-> FALSE, defstart |-> FALSE, brackets |-> 0, typedef |-> 0,
     default_arg |-> 0, indent |-> 0, tokens |-> <<>>,
     token_generator |-> NewGenerator, exc |-> "", msg |-> "", done |-> FALSE,
     reads |-> <<>>, lookaheads |-> 0]

Push(td, token) == [td EXCEPT !.tokens = Append(@, token)]
\* tokens.pop() followed by tokens.append(token)
Swap(td, token) == [td EXCEPT !.tokens = Append(Front(@), token)]
Raise(td, exc, msg) == [td EXCEPT !.exc = exc, !.msg = msg]
LastIs(td, cls) == td.tokens # <<>> /\ isinstance(Last(td.tokens), cls)
MathOperators == {"/", "//", "*", "^", "@", "%", "**", ">>", "<<", "&", "|"}

\* previous = tokens.pop().text of the NAME branch inside a default value
DefNameDefault(td, string, previous) ==
    IF Rstrip(previous) = <<>> THEN Raise(td, "IndexError", "")
    ELSE IF Last(Rstrip(previous)) \in {"+", "-"}
    THEN Swap(td, Tok("ArgumentDefault", previous \o <<SP>> \o string))
    ELSE Swap(td, Tok("ArgumentDefault", previous \o string))

\* the NAME branch, the lambda case excepted
DefName(td, string) ==
    IF string = <<"async">> THEN Push(td, Tok("Keyword", string))
    ELSE IF string = <<"def">>
    THEN IF td.hasdef
         THEN Raise(td, "ParseError", "Did not expect second definition keyword")
         ELSE [Push(td, Tok("Definition", string)) EXCEPT !.hasdef = TRUE]
    ELSE IF ~td.defstart THEN Push(td, Tok("FunctionName", string))
    ELSE IF td.typedef # 0
    THEN IF LastIs(td, "DottedName") /\ Last(td.tokens).text # <<>>
            /\ Last(Last(td.tokens).text) \in {".", "..."}
         THEN Swap(td, Tok("DottedName", Last(td.tokens).text \o string))
         ELSE Push(td, Tok("DottedName", string))
    ELSE IF td.default_arg # 0
    THEN IF LastIs(td, "ArgumentDefault")
         THEN DefNameDefault(td, string, Last(td.tokens).text)
         ELSE Push(td, Tok("ArgumentDefault", string))
    ELSE Push(td, Tok("ArgumentName", string))

\* the OP branch for the operator s = string[1]
DefOpOf(td, string, s) ==
    IF s \in {"(", "[", "{"}
    THEN [Push(td, Tok("EndSeparator", string)) EXCEPT
             !.brackets = @ + 1,
             !.defstart = @ \/ (td.hasdef /\ s = "("),
             !.typedef = IF @ # 0 THEN @ + 1 ELSE @]
    ELSE IF s \in {")", "]", "}"}
    THEN [Push(td, Tok("EndSeparator", string)) EXCEPT
             !.brackets = @ - 1,
             !.typedef = IF @ # 0 THEN @ - 1 ELSE @,
             !.default_arg = IF @ # 0 THEN @ - 1 ELSE @]
    ELSE IF s \in {"*", "**", "/"} /\ td.default_arg = 0
    THEN Push(td, Tok("EndSeparator", string))
    ELSE IF s = "|" THEN Push(td, Tok("Separator", string))
    ELSE IF s = ","
    THEN [Push(td, Tok("Separator", string)) EXCEPT
             !.typedef = IF @ = 1 THEN 0 ELSE @,
             !.default_arg = IF @ = 1 THEN 0 ELSE @]
    ELSE IF s = "->"
    THEN [Push(td, Tok("ReturnTypeDef", string)) EXCEPT !.typedef = 1]
    ELSE IF s = ":"
    THEN IF td.defstart /\ td.brackets = 0
         THEN [Push(td, Tok("EndDefinition", string)) EXCEPT !.typedef = 0, !.done = TRUE]
         ELSE [Push(td, Tok("TypeDef", string)) EXCEPT !.typedef = 1]
    ELSE IF s = "="
    THEN [Push(td, Tok("DefaultDef", string)) EXCEPT !.typedef = 0, !.default_arg = 1]
    ELSE IF s \in {"-", "+", "~"}
    THEN IF LastIs(td, "ArgumentDefault")
         THEN IF s \in {"-", "+"}
              THEN Swap(td, Tok("ArgumentDefault", Last(td.tokens).text \o <<SP>> \o string))
              ELSE Swap(td, Tok("ArgumentDefault", Last(td.tokens).text \o string))
         ELSE Push(td, Tok("ArgumentDefault", string))
    ELSE IF s \in MathOperators /\ LastIs(td, "ArgumentDefault")
    THEN Swap(td, Tok("ArgumentDefault", Last(td.tokens).text \o <<SP>> \o string \o <<SP>>))
    ELSE IF s = "." /\ LastIs(td, "DottedName")
    THEN Swap(td, Tok("DottedName", Last(td.tokens).text \o string))
    ELSE IF s = "..." THEN Push(td, Tok("DottedName", string))
    ELSE Raise(td, "ParseError", "Exhaustive list of OP failed")

\* the OP branch
DefOp(td, string) == DefOpOf(td, string, string[1])

\* the separator ending a line becomes an end separator
EndLine(td) ==
    IF LastIs(td, "Separator")
    THEN Swap(td, Tok("EndSeparator", Last(td.tokens).text)) ELSE td

\* the NL/NEWLINE branch, the indent taken from get_line(line_no)
DefNewlineAt(src, td, string, line_no) ==
    Let(get_line_indent(get_line(src, line_no)), LAMBDA indent :
      [EndLine(td) EXCEPT !.tokens = @ \o <<Tok("EndSeparator", string),
                                            Tok("EndSeparator", Spaces(indent))>>,
                          !.indent = indent,
                          !.reads = Append(@, line_no),
                          !.lookaheads = @ + 1])

\* the NL/NEWLINE branch with get_line(start_line) for the indent
DefNewline_FromStart(src, td, string) == DefNewlineAt(src, td, string, td.start_line)

\* the NL/NEWLINE branch; get_line is asked for the line the tokenizer reads next
DefNewline(src, td, string) == DefNewlineAt(src, td, string, td.current_line_no)

\* the STRING/NUMBER branch
DefLiteral(td, string) ==
    IF LastIs(td, "ArgumentDefault")
    THEN Swap(td, Tok("ArgumentDefault", Last(td.tokens).text \o string))
    ELSE Push(td, Tok("ArgumentDefault", string))

\* the frame after the generator was advanced to r: its lines were read through get_line
Advance(td, r) ==
    [td EXCEPT !.token_generator = r.gen,
               !.current_line_no = r.current_line_no,
               !.reads = @ \o [k \in 1..(r.current_line_no - td.current_line_no)
                                 |-> td.current_line_no + k - 1]]

\* the statements after read_lambda returned r; t2 holds the lambda tokens
DefLambdaEnd(t2, r) ==
    IF ~r.over_read THEN t2
    ELSE IF t2.typedef # 0 \/ t2.default_arg = 0 THEN Raise(t2, "AssertionError", "")
    ELSE [Push(t2, Tok("EndSeparator", <<")">>)) EXCEPT
             !.brackets = @ - 1, !.default_arg = @ - 1]

\* the lambda case of the NAME branch, r the outcome of read_lambda
DefLambdaOf(td, string, r) ==
    IF r.kind # "ok"
    THEN Raise(Push(Advance(td, r), Tok("ArgumentDefault", string)), r.kind, r.msg)
    ELSE DefLambdaEnd(Push(Push(Advance(td, r), Tok("ArgumentDefault", string)),
                           Tok("LambdaBody", r.body)), r)

\* the lambda case of the NAME branch
DefLambda(src, td, string) ==
    DefLambdaOf(td, string, read_lambda(src, td.token_generator, td.current_line_no))

\* the body of the for loop for one token of the generator
DefTokenOf(src, td, type, string) ==
    CASE type = "NAME" ->
           IF string \notin {<<"async">>, <<"def">>} /\ td.defstart /\ td.typedef = 0
              /\ td.default_arg # 0 /\ string = <<"lambda">>
           THEN DefLambda(src, td, string)
           ELSE DefName(td, string)
      [] type = "OP" -> DefOp(td, string)
      [] type \in {"NL", "NEWLINE"} -> DefNewline(src, td, string)
      [] type = "COMMENT" -> Push(td, Tok("EndSeparator", <<SP, SP>> \o string))
      [] type \in {"STRING", "NUMBER"} -> DefLiteral(td, string)
      [] type = "INDENT" -> Push(td, Tok("EndSeparator", string))
      [] type = "ENDMARKER" ->
           Raise(td, "EOFError", "Found ENDMARKER token while reading function definition")
      [] OTHER -> Raise(td, "ParseError", "Unrecognized token type")

DefToken(src, td, token) == DefTokenOf(src, td, token.type, token.string)

\* one iteration of "for token in token_generator" for the outcome r of next()
TokenizeDefinitionOf(src, td, r) ==
    IF r.kind = "stop" THEN [Advance(td, r) EXCEPT !.done = TRUE]
    ELSE IF r.kind # "token" THEN Raise(Advance(td, r), r.kind, "")
    ELSE DefToken(src, Advance(td, r), r.token)

\* one iteration of "for token in token_generator", or the statements after the loop
TokenizeDefinitionIter(src, td) ==
    TokenizeDefinitionOf(src, td, GenNext(src, td.token_generator, td.current_line_no))

(***************************************************************************)
(* get_annotation                                                          *)
(***************************************************************************)
VARIABLES
    src,          \* the lines get_line serves
    annotation,   \* [line, signature: [arg_types, return_type], path]
    pc,           \* the statement of get_annotation that runs next
    td,           \* the frame of tokenize_definition
    ga,           \* the locals of get_annotation
    slots,        \* what the argument loop did for each ArgumentName, in order
    result,       \* [status, exc, msg, text, line_count]
    pass,         \* 1: the call on the input; 2: the call on the text of pass 1
    first,        \* pass 1 as pass 2 sees it: [text, line_count, slots]
    ty,           \* one type string on its way through tokenize, Parser and renderer
    peer,         \* a second invocation of get_annotation, while it does not run
    ext,          \* idlemypyextension.suggest at work on a batch of annotations
    runner,       \* the TkTrioRunner and the event loop of its host
    handoff,      \* a ThreadRunner, the threads that call it and the host loop
    conn          \* one request to the daemon over its socket

vars == <<src, annotation, pc, td, ga, slots, result, pass, first, ty, peer, ext, runner, handoff, conn>>

\* the variables of one invocation of get_annotation
invocation == <<src, annotation, pc, td, ga, slots, result>>

\* the variables no statement of get_annotation reads or writes
outside == <<ty, peer, ext, runner, handoff, conn>>

\* the value of a variable that the specification at hand does not use
Unused == [pc |-> "unused"]

Running == [status |-> "running", exc |-> "", msg |-> "", text |-> <<>>, line_count |-> 0]
Raised(exc, msg) == [status |-> "raised", exc |-> exc, msg |-> msg, text |-> <<>>, line_count |-> 0]
Returned(text, line_count) ==
    [status |-> "returned", exc |-> "", msg |-> "", text |-> text, line_count |-> line_count]

NewParser(tokens) == [tokens |-> tokens, i |-> 0]

NewLocals ==
    [def_tokens |-> <<>>, line_count |-> 0, arg_tokens |-> <<>>, return_tokens |-> <<>>,
     ignore_modules |-> {}, new_lines |-> <<>>, parser |-> NewParser(<<>>),
     argparser |-> NewParser(<<>>), skip_args |-> {}, argument |-> 0, arg_place |-> 0]

\* str.rsplit(sep, 1)
LastIndex(s, a) == CHOOSE k \in 1..Len(s) : s[k] = a /\ \A j \in (k + 1)..Len(s) : s[j] # a
AfterLast(s, a) == IF Contains(s, a) THEN Drop(s, LastIndex(s, a)) ELSE s
BeforeLast(s, a) == IF Contains(s, a) THEN Take(s, LastIndex(s, a) - 1) ELSE s

normalize_path(path) == [k \in 1..Len(path) |-> IF path[k] = "\\" THEN "/" ELSE path[k]]

\* the module names that are ignored when a type is rendered
IgnoreModules(path) ==
    LET filename == AfterLast(normalize_path(path), "/")
        module_name == BeforeLast(filename, ".")
    IN IF module_name # <<>> THEN {module_name} ELSE {}

\* the call of tokenize_definition: one iteration of its loop per step
TokenizeDefinition ==
    /\ pc = "tokenize_definition"
    /\ \E t \in {TokenizeDefinitionIter(src, td)} :
       /\ td' = t
       /\ IF t.exc = "EOFError"
          THEN /\ pc' = "raised"
               /\ result' = Raised("ParseError", "Reached End of File, expected end of definition")
               /\ ga' = ga
          ELSE IF t.exc # ""
          THEN /\ pc' = "raised"
               /\ result' = Raised(t.exc, t.msg)
               /\ ga' = ga
          ELSE IF t.done
          THEN /\ pc' = "tokenize_signature"
               /\ ga' = [ga EXCEPT !.def_tokens = Append(t.tokens, End),
                                   !.line_count = t.current_line_no - t.start_line]
               /\ result' = result
          ELSE /\ pc' = pc
               /\ UNCHANGED <<ga, result>>
    /\ UNCHANGED <<src, annotation, slots, pass, first>>
    /\ UNCHANGED outside

\* arg_tokens, return_tokens, ignore_modules, new_lines and the first Parser
TokenizeSignature ==
    /\ pc = "tokenize_signature"
    /\ \E args \in {[k \in 1..Len(annotation.signature.arg_types) |->
                        tokenize(annotation.signature.arg_types[k])]},
          ret \in {tokenize(annotation.signature.return_type)} :
          IF (\E k \in 1..Len(args) : args[k].err # "") \/ ret.err # ""
          THEN /\ pc' = "raised"
               /\ result' = Raised("ParseError", "Could not parse")
               /\ ga' = ga
          ELSE /\ pc' = "find_start"
               /\ ga' = [ga EXCEPT !.arg_tokens = [k \in 1..Len(args) |-> args[k].tokens],
                                   !.return_tokens = ret.tokens,
                                   !.ignore_modules = IgnoreModules(annotation.path),
                                   !.new_lines = <<>>,
                                   !.parser = NewParser(ga.def_tokens)]
               /\ result' = result
    /\ UNCHANGED <<src, annotation, td, slots, pass, first>>
    /\ UNCHANGED outside

\* one iteration of the loop that finds the start of the argument definition
FindStart ==
    /\ pc = "find_start"
    /\ \E n \in {next(ga.parser.tokens, ga.parser.i)} :
       IF n.err # ""
       THEN /\ pc' = "raised" /\ result' = Raised("ParseError", n.err) /\ ga' = ga
       ELSE IF isinstance(n.v, "ArgumentName") \/ n.v.text = <<")">>
       THEN /\ pc' = "find_skips"
            /\ ga' = [ga EXCEPT !.skip_args = {}, !.argument = 0,
                                !.argparser = NewParser(rest_tokens(ga.parser.tokens, n.i - 1))]
            /\ result' = result
       ELSE IF n.v.text = NONE
       THEN /\ pc' = "raised"
            /\ result' = Raised("AssertionError",
                                "Unreachable, End token is the only null text token")
            /\ ga' = ga
       ELSE /\ pc' = pc
            /\ ga' = [ga EXCEPT !.parser.i = n.i,
                                !.new_lines = @ \o n.v.text
                                    \o (IF isinstance(n.v, "Keyword") THEN <<SP>> ELSE <<>>)]
            /\ result' = result
    /\ UNCHANGED <<src, annotation, td, slots, pass, first>>
    /\ UNCHANGED outside

\* the iteration with token = argparser.peek(): the cursor stays
FindSkips_CursorStays ==
    /\ pc = "find_skips"
    /\ \E p \in {peek(ga.argparser.tokens, ga.argparser.i)}, i \in {ga.argparser.i} :
       IF p.err # ""
       THEN /\ pc' = "raised" /\ result' = Raised("ParseError", p.err) /\ ga' = ga
       ELSE IF isinstance(p.v, "ReturnTypeDef") \/ isinstance(p.v, "EndDefinition")
       THEN /\ pc' = "arg_place" /\ UNCHANGED <<ga, result>>
       ELSE IF isinstance(p.v, "Separator")
       THEN /\ pc' = pc
            /\ result' = result
            /\ ga' = IF p.v.text \in {<<"/">>, <<"*">>}
                     THEN [ga EXCEPT !.argparser.i = i,
                                     !.skip_args = @ \cup {ga.argument},
                                     !.argument = @ + 1]
                     ELSE [ga EXCEPT !.argparser.i = i]
       ELSE IF isinstance(p.v, "ArgumentName")
       THEN /\ pc' = pc
            /\ result' = result
            /\ ga' = [ga EXCEPT !.argparser.i = i, !.argument = @ + 1]
       ELSE IF isinstance(p.v, "End")
       THEN /\ pc' = "raised"
            /\ result' = Raised("ParseError",
                                "Found End token during argument location handling")
            /\ ga' = ga
       ELSE /\ pc' = pc
            /\ result' = result
            /\ ga' = [ga EXCEPT !.argparser.i = i]
    /\ UNCHANGED <<src, annotation, td, slots, pass, first>>
    /\ UNCHANGED outside

\* one iteration of the loop that finds the arguments to skip
FindSkips ==
    /\ pc = "find_skips"
    /\ \E p \in {peek(ga.argparser.tokens, ga.argparser.i)}, i \in {ga.argparser.i + 1} :
       IF p.err # ""
       THEN /\ pc' = "raised" /\ result' = Raised("ParseError", p.err) /\ ga' = ga
       ELSE IF isinstance(p.v, "ReturnTypeDef") \/ isinstance(p.v, "EndDefinition")
       THEN /\ pc' = "arg_place" /\ UNCHANGED <<ga, result>>
       ELSE IF isinstance(p.v, "Separator")
       THEN /\ pc' = pc
            /\ result' = result
            /\ ga' = IF p.v.text \in {<<"/">>, <<"*">>}
                     THEN [ga EXCEPT !.argparser.i = i,
                                     !.skip_args = @ \cup {ga.argument},
                                     !.argument = @ + 1]
                     ELSE [ga EXCEPT !.argparser.i = i]
       ELSE IF isinstance(p.v, "ArgumentName")
       THEN /\ pc' = pc
            /\ result' = result
            /\ ga' = [ga EXCEPT !.argparser.i = i, !.argument = @ + 1]
       ELSE IF isinstance(p.v, "End")
       THEN /\ pc' = "raised"
            /\ result' = Raised("ParseError",
                                "Found End token during argument location handling")
            /\ ga' = ga
       ELSE /\ pc' = pc
            /\ result' = result
            /\ ga' = [ga EXCEPT !.argparser.i = i]
    /\ UNCHANGED <<src, annotation, td, slots, pass, first>>
    /\ UNCHANGED outside

\* ArgPlace without the skip of the first argument
ArgPlace_SelfNotSkipped ==
    /\ pc = "arg_place"
    /\ \E arg_place \in {Len(ga.arg_tokens) - ga.argument} :
       ga' = IF arg_place < 0
             THEN [ga EXCEPT !.arg_place = -1, !.argument = 0]
             ELSE [ga EXCEPT !.arg_place = arg_place, !.argument = 0]
    /\ pc' = "arguments"
    /\ UNCHANGED <<src, annotation, td, slots, result, pass, first>>
    /\ UNCHANGED outside

\* arg_place and the skip of the self or class argument
ArgPlace ==
    /\ pc = "arg_place"
    /\ \E arg_place \in {Len(ga.arg_tokens) - ga.argument} :
       ga' = IF arg_place < 0
             THEN [ga EXCEPT !.skip_args = @ \cup {0}, !.arg_place = -1, !.argument = 0]
             ELSE [ga EXCEPT !.arg_place = arg_place, !.argument = 0]
    /\ pc' = "arguments"
    /\ UNCHANGED <<src, annotation, td, slots, result, pass, first>>
    /\ UNCHANGED outside

\* what the argument loop does for the annotation of one ArgumentName:
\* [exc, msg, i, text, kind, place]; kind says where the annotation came from
NoAnnotation(g, i) ==
    [exc |-> "", msg |-> "", i |-> i, text |-> <<>>, kind |-> "skipped", place |-> g.arg_place]

AnnotationError(g, i, exc, msg) == [NoAnnotation(g, i) EXCEPT !.exc = exc, !.msg = msg]

\* new_lines += f": {get_typevalue_repr(type_value, ignore_modules)}"
Annotated(g, i, kind, type_value) ==
    [NoAnnotation(g, i) EXCEPT
        !.kind = kind,
        !.text = <<":", SP>> \o get_typevalue_repr(type_value, g.ignore_modules)]

\* the type parsed from arg_tokens[k], a list of n entries
InferredAnnotation(g, i, k, n) ==
    IF k < 0 \/ k >= n
    THEN AnnotationError(g, i, "IndexError", "list index out of range")
    ELSE Let(parse_type(g.arg_tokens[k + 1], 0), LAMBDA t :
           IF t.err # "" THEN AnnotationError(g, i, "ParseError", t.err)
           ELSE Annotated(g, i, "inferred", t.v))

\* AnnotationPart where an inferred type, when there is one, replaces the
\* annotation of the source
AnnotationPart_InferredWins(g, i) ==
    Let(peek(g.parser.tokens, i), LAMBDA pk :
      IF pk.err # "" THEN AnnotationError(g, i, "ParseError", pk.err)
      ELSE IF isinstance(pk.v, "TypeDef")
      THEN Let(expect(g.parser.tokens, i, <<":">>), LAMBDA e :
             IF e.err # "" THEN AnnotationError(g, i, "ParseError", e.err)
             ELSE Let(parse_type(g.parser.tokens, e.i), LAMBDA t :
                    IF t.err # "" THEN AnnotationError(g, i, "ParseError", t.err)
                    ELSE IF g.argument \notin g.skip_args
                            /\ g.arg_place \in 0..(Len(g.arg_tokens) - 1)
                    THEN Annotated(g, t.i, "own",
                                   parse_type(g.arg_tokens[g.arg_place + 1], 0).v)
                    ELSE Annotated(g, t.i, "own", t.v)))
      ELSE IF g.argument \notin g.skip_args
      THEN InferredAnnotation(g, i,
              IF g.arg_place < 0 THEN g.arg_place + Len(g.arg_tokens) ELSE g.arg_place,
              Len(g.arg_tokens))
      ELSE NoAnnotation(g, i))

\* the annotation of one ArgumentName, the parser being at i
AnnotationPart(g, i) ==
    Let(peek(g.parser.tokens, i), LAMBDA pk :
      IF pk.err # "" THEN AnnotationError(g, i, "ParseError", pk.err)
      ELSE IF isinstance(pk.v, "TypeDef")
      THEN Let(expect(g.parser.tokens, i, <<":">>), LAMBDA e :
             IF e.err # "" THEN AnnotationError(g, i, "ParseError", e.err)
             ELSE Let(parse_type(g.parser.tokens, e.i), LAMBDA t :
                    IF t.err # "" THEN AnnotationError(g, i, "ParseError", t.err)
                    ELSE Annotated(g, t.i, "own", t.v)))
      ELSE IF g.argument \notin g.skip_args
      THEN InferredAnnotation(g, i,
              IF g.arg_place < 0 THEN g.arg_place + Len(g.arg_tokens) ELSE g.arg_place,
              Len(g.arg_tokens))
      ELSE NoAnnotation(g, i))

\* f"{token.text}"
Format(text) == IF text = NONE THEN <<"None">> ELSE text

\* what the argument loop does for the default of one ArgumentName: [err, i, text]
Default(err, i, text) == [err |-> err, i |-> i, text |-> text]

\* a default value that opens with a bracket, the parser being after "=" at j
CollectionDefault(P, i, j, start_collection) ==
    Let(parse_type_collection(P, j + 1, start_collection), LAMBDA c :
      IF c.err # "" THEN Default(c.err, i, <<>>)
      ELSE Let(next(P, c.i), LAMBDA close :
             IF close.err # "" THEN Default(close.err, i, <<>>)
             ELSE Default("", close.i,
                          <<SP, "=", SP>> \o start_collection
                          \o Join(<<",", SP>>, [k \in 1..Len(c.v) |-> str(c.v[k])])
                          \o Format(close.v.text))))

\* the default value of one ArgumentName, the parser being at i
DefaultPart(g, i) ==
    Let(peek(g.parser.tokens, i), LAMBDA pk :
      IF pk.err # "" THEN Default(pk.err, i, <<>>)
      ELSE IF ~isinstance(pk.v, "DefaultDef") THEN Default("", i, <<>>)
      ELSE Let(expect(g.parser.tokens, i, <<"=">>), LAMBDA e :
             IF e.err # "" THEN Default(e.err, i, <<>>)
             ELSE Let(peek(g.parser.tokens, e.i), LAMBDA p2 :
                    IF p2.err # "" THEN Default(p2.err, i, <<>>)
                    ELSE IF isinstance(p2.v, "EndSeparator")
                    THEN CollectionDefault(g.parser.tokens, i, e.i, p2.v.text)
                    ELSE Let(parse_type(g.parser.tokens, e.i), LAMBDA t :
                           IF t.err # "" THEN Default(t.err, i, <<>>)
                           ELSE Default("", t.i, <<SP, "=", SP>> \o str(t.v))))))

\* one iteration of the loop that handles the arguments
Arguments ==
    /\ pc = "arguments"
    /\ \E n \in {next(ga.parser.tokens, ga.parser.i)} :
       IF n.err # ""
       THEN /\ pc' = "raised" /\ result' = Raised("ParseError", n.err)
            /\ UNCHANGED <<ga, slots>>
       ELSE IF isinstance(n.v, "Separator")
       THEN /\ ga' = [ga EXCEPT
                        !.parser.i = n.i,
                        !.new_lines = @ \o (IF isinstance(n.v, "EndSeparator")
                                            THEN n.v.text ELSE n.v.text \o <<SP>>),
                        !.argument = IF n.v.text \in {<<"*">>, <<"/">>} THEN @ + 1 ELSE @]
            /\ pc' = IF n.v.text = <<")">> THEN "end" ELSE pc
            /\ UNCHANGED <<result, slots>>
       ELSE IF isinstance(n.v, "ArgumentName")
       THEN \E a \in {AnnotationPart(ga, n.i)} :
            IF a.exc # ""
            THEN /\ pc' = "raised" /\ result' = Raised(a.exc, a.msg)
                 /\ UNCHANGED <<ga, slots>>
            ELSE \E d \in {DefaultPart(ga, a.i)} :
                 IF d.err # ""
                 THEN /\ pc' = "raised" /\ result' = Raised("ParseError", d.err)
                      /\ UNCHANGED <<ga, slots>>
                 ELSE /\ ga' = [ga EXCEPT !.parser.i = d.i,
                                          !.new_lines = @ \o n.v.text \o a.text \o d.text,
                                          !.argument = @ + 1,
                                          !.arg_place = @ + 1]
                      /\ slots' = Append(slots, [name |-> n.v.text, argument |-> ga.argument,
                                                 kind |-> a.kind, place |-> a.place,
                                                 type_text |-> a.text, default |-> d.text])
                      /\ UNCHANGED <<pc, result>>
       ELSE IF isinstance(n.v, "End")
       THEN /\ pc' = "end" /\ UNCHANGED <<ga, result, slots>>
       ELSE /\ ga' = [ga EXCEPT !.parser.i = n.i]
            /\ UNCHANGED <<pc, result, slots>>
    /\ UNCHANGED <<src, annotation, td, pass, first>>
    /\ UNCHANGED outside

\* ReturnParser where return_tokens is spliced in whole, its End token included
ReturnParser_KeepsEnd(g) ==
    NewParser(<<Tok("ReturnTypeDef", <<"->">>)>> \o g.return_tokens
              \o rest_tokens(g.parser.tokens, g.parser.i))

\* parser = Parser([ReturnTypeDef("->"), *return_tokens[:-1], *parser.rest_tokens()])
ReturnParser(g) ==
    NewParser(<<Tok("ReturnTypeDef", <<"->">>)>> \o Front(g.return_tokens)
              \o rest_tokens(g.parser.tokens, g.parser.i))

\* the return type is parsed by parser and written; the exceptions of the parser leave
ReturnType(parser) ==
    \E e \in {expect(parser.tokens, parser.i, <<"->">>)} :
       IF e.err # ""
       THEN /\ pc' = "raised" /\ result' = Raised("ParseError", e.err) /\ ga' = ga
       ELSE \E t \in {parse_type(parser.tokens, e.i)} :
            IF t.err # ""
            THEN /\ pc' = "raised" /\ result' = Raised("ParseError", t.err) /\ ga' = ga
            ELSE /\ pc' = "trailing"
                 /\ result' = result
                 /\ ga' = [ga EXCEPT !.parser = [tokens |-> parser.tokens, i |-> t.i],
                                     !.new_lines = @ \o <<SP, "->", SP>> \o str(t.v)]

\* HandleEnd where the inferred return type replaces the return annotation of
\* the source
HandleEnd_InferredWins ==
    /\ pc = "end"
    /\ \E pk \in {peek(ga.parser.tokens, ga.parser.i)} :
       IF pk.err # ""
       THEN /\ pc' = "raised" /\ result' = Raised("ParseError", pk.err) /\ ga' = ga
       ELSE IF isinstance(pk.v, "EndDefinition") \/ isinstance(pk.v, "End")
       THEN ReturnType(ReturnParser(ga))
       ELSE ReturnType(NewParser(<<Tok("ReturnTypeDef", <<"->">>)>> \o Front(ga.return_tokens)
                                 \o <<Tok("EndDefinition", <<":">>), End>>))
    /\ UNCHANGED <<src, annotation, td, slots, pass, first>>
    /\ UNCHANGED outside

\* "Handle the end": the return type
HandleEnd ==
    /\ pc = "end"
    /\ \E pk \in {peek(ga.parser.tokens, ga.parser.i)} :
       IF pk.err # ""
       THEN /\ pc' = "raised" /\ result' = Raised("ParseError", pk.err) /\ ga' = ga
       ELSE IF isinstance(pk.v, "EndDefinition") \/ isinstance(pk.v, "End")
       THEN ReturnType(ReturnParser(ga))
       ELSE ReturnType(ga.parser)
    /\ UNCHANGED <<src, annotation, td, slots, pass, first>>
    /\ UNCHANGED outside

\* one iteration of the last loop, which copies the tokens up to End, and the return
Trailing ==
    /\ pc = "trailing"
    /\ \E n \in {next(ga.parser.tokens, ga.parser.i)} :
       IF n.err # ""
       THEN /\ pc' = "raised" /\ result' = Raised("ParseError", n.err) /\ ga' = ga
       ELSE IF isinstance(n.v, "End")
       THEN /\ pc' = "returned"
            /\ result' = Returned(ga.new_lines, ga.line_count)
            /\ ga' = [ga EXCEPT !.parser.i = n.i]
       ELSE IF n.v.text = NONE
       THEN /\ pc' = "raised" /\ result' = Raised("AssertionError", "") /\ ga' = ga
       ELSE /\ pc' = pc
            /\ result' = result
            /\ ga' = [ga EXCEPT !.parser.i = n.i, !.new_lines = @ \o n.v.text]
    /\ UNCHANGED <<src, annotation, td, slots, pass, first>>
    /\ UNCHANGED outside

\* str.splitlines(True)
RECURSIVE splitlines(_)
splitlines(text) ==
    IF text = <<>> THEN <<>>
    ELSE IF Contains(text, NLCH)
    THEN <<Take(text, FirstIndex(text, NLCH))>> \o splitlines(Drop(text, FirstIndex(text, NLCH)))
    ELSE <<text>>

\* get_annotation is called again, with the text it returned as the source
SecondPass ==
    /\ pc = "returned"
    /\ pass = 1
    /\ pass' = 2
    /\ first' = [text |-> result.text, line_count |-> result.line_count, slots |-> slots]
    /\ src' = splitlines(result.text)
    /\ annotation' = [annotation EXCEPT !.line = 0]
    /\ td' = NewFrame(0)
    /\ ga' = NewLocals
    /\ slots' = <<>>
    /\ result' = Running
    /\ pc' = "tokenize_definition"
    /\ UNCHANGED outside

(***************************************************************************)
(* Inputs and specification                                                *)
(***************************************************************************)
Input(lines, line, arg_types, return_type, path) ==
    [lines |-> lines, line |-> line, arg_types |-> arg_types,
     return_type |-> return_type, path |-> path]

(* Positional family: def f([self, ] item, ... ) [-> bool]: with up to     *)
(* MaxArgs items, each a plain or annotated argument, a bare marker or a   *)
(* variadic argument, and 0..MaxTypes inferred argument types t1, t2, ...  *)
MaxArgs == 3
MaxTypes == 3

ArgNames == <<"a", "b", "c", "d", "e", "h">>
TypeNames == <<"t1", "t2", "t3", "t4", "t5", "t6">>
Forms == {"plain", "annot", "star", "slash", "starargs", "kwargs"}

Item(form, k) ==
    CASE form = "plain" -> <<ArgNames[k]>>
      [] form = "annot" -> <<ArgNames[k], ":", SP, "bool">>
      [] form = "star" -> <<"*">>
      [] form = "slash" -> <<"/">>
      [] form = "starargs" -> <<"*", ArgNames[k]>>
      [] form = "kwargs" -> <<"**", ArgNames[k]>>

\* the argument lists Python accepts
ValidForms(self, fs) ==
    LET n == Len(fs)
        At(f) == {k \in 1..n : fs[k] = f}
        Stars == At("star") \cup At("starargs")
    IN /\ Cardinality(At("slash")) <= 1
       /\ Cardinality(Stars) <= 1
       /\ Cardinality(At("kwargs")) <= 1
       /\ \A k \in At("slash") : (k > 1 \/ self) /\ \A j \in 1..(k - 1) : fs[j] \in {"plain", "annot"}
       /\ \A k \in At("kwargs") : k = n
       /\ \A k \in At("star") : k < n /\ fs[k + 1] \in {"plain", "annot"}

Header(prefix, items, ret) ==
    prefix \o <<"def", SP, "f", "(">> \o Join(<<",", SP>>, items) \o <<")">>
    \o (IF ret = <<>> THEN <<>> ELSE <<SP, "->", SP>> \o ret) \o <<":", NLCH>>

FormSeqs == UNION {[1..n -> Forms] : n \in 0..MaxArgs}

PositionalHeaders ==
    {Header(<<>>,
            (IF self THEN <<<<"self">>>> ELSE <<>>) \o [k \in 1..Len(fs) |-> Item(fs[k], k)],
            ret) :
        <<self, fs, ret>> \in
            {x \in BOOLEAN \X FormSeqs \X {<<>>, <<"bool">>} :
                ValidForms(x[1], x[2])}}

PositionalInputs ==
    {Input(<<h>>, 0, [k \in 1..n |-> <<TypeNames[k]>>], <<"r">>, <<>>) :
        <<h, n>> \in PositionalHeaders \X (0..MaxTypes)}

(* Default family: def f(a[: bool] = D[, b]) [-> bool]: on one line or one *)
(* argument per line, for the default expressions D                        *)
Defaults ==
    {<<"1">>, <<"'s'">>, <<"x">>, <<"None">>, <<"...">>,
     <<"x", ".", "y">>, <<"-", "x">>, <<"-", "1">>, <<"~", "x">>,
     <<"1", SP, "+", SP, "2">>, <<"x", "+", "y">>, <<"x", SP, "*", SP, "y">>,
     <<"x", SP, "@", SP, "y">>,
     <<"g", "(", "1", ")">>,
     <<"(", "1", ",", SP, "2", ")">>, <<"[", "1", "]">>, <<"{", "'s'", ":", SP, "1", "}">>,
     <<"{", "1", ",", SP, "2", "}">>,
     <<"(", "x", ",", SP, "y", ")">>, <<"g", "(", "x", ",", SP, "y", ")">>,
     <<"lambda", SP, "x", ":", SP, "x">>,
     <<"lambda", ":", SP, "1">>,
     <<"lambda", SP, "x", ":", SP, "(", "x", ")">>,
     <<"lambda", SP, "x", ":", SP, "g", "(", "x", ")">>,
     <<"lambda", SP, "x", ",", SP, "y", ":", SP, "[", "x", "]">>}

Indent == <<SP, SP, SP, SP>>

DefaultLines(d, annotated, second, multi, ret) ==
    LET a == <<"a">> \o (IF annotated THEN <<":", SP, "bool">> ELSE <<>>) \o <<SP, "=", SP>> \o d
        items == <<a>> \o second
        tail == <<")">> \o (IF ret = <<>> THEN <<>> ELSE <<SP, "->", SP>> \o ret) \o <<":", NLCH>>
    IN IF multi
       THEN <<<<"def", SP, "f", "(", NLCH>>>>
            \o [k \in 1..Len(items) |-> Indent \o items[k] \o <<",", NLCH>>]
            \o <<tail>>
       ELSE <<Header(<<>>, items, ret)>>

DefaultInputs ==
    {Input(DefaultLines(x[1], x[2], x[3], x[4], x[5]), 0,
           [k \in 1..(1 + Len(x[3])) |-> <<TypeNames[k]>>], <<"r">>, <<>>) :
        x \in Defaults \X BOOLEAN \X {<<>>, <<<<"b">>>>, <<<<"b", SP, "=", SP, "1">>>>}
              \X BOOLEAN \X {<<>>, <<"bool">>}}

(* Type family: the type strings the daemon sends and the annotations a    *)
(* user writes                                                             *)
OwnTypes ==
    {<<"int">>, <<"Optional", "[", "int", "]">>, <<"typing", ".", "List", "[", "int", "]">>,
     <<"Union", "[", "int", ",", SP, "str", "]">>, <<"int", SP, "|", SP, "None">>,
     <<"mod", ".", "Foo">>, <<"Callable", "[", "[", "int", "]", ",", SP, "str", "]">>,
     <<"Tuple", "[", "int", ",", SP, "int", "]">>, <<"typing", ".", "Optional", "[", "int", "]">>,
     <<"List", "[", "mod", ".", "Foo", "]">>}

TypeStrings ==
    OwnTypes \cup
    {<<"T", BQ, "1">>, <<"T", "-", "1">>, <<"Union", "[", "int", "]">>,
     <<"Union", "[", "]">>, <<"pytz", ".", "tzfile", ".", "America", "/", "Los_Angeles">>,
     <<"Overload", "(", "int", ",", SP, "str", ")">>, <<"int", "?">>,
     <<"typing", ".", "Union", "[", "int", ",", SP, "str", "]">>, <<>>}

Paths == {<<>>, <<"/", "x", "/", "mod", ".", "py">>}

TypeInputs ==
    {Input(<<Header(<<>>, <<<<"a">>>>, <<>>)>>, 0, <<x[1]>>, x[2], x[3]) :
        x \in TypeStrings \X {<<"r">>, <<"mod", ".", "Foo">>, <<"typing", ".", "Optional", "[", "int", "]">>} \X Paths}
    \cup
    {Input(<<Header(<<>>, <<<<"a", ":", SP>> \o x[1]>>, x[2])>>, 0, <<<<"t1">>>>, <<"r">>, x[3]) :
        x \in OwnTypes \X OwnTypes \X Paths}

(* Layout family: comments, continuation lines, indentation, async, a      *)
(* header that does not start at line 0                                    *)
LayoutInputs ==
    {Input(<<<<"def", SP, "f", "(", NLCH>>,
             Indent \o <<"a", "#c", NLCH>>,
             <<")", ":", NLCH>>>>, 0, <<<<"t1">>>>, <<"r">>, <<>>),
     Input(<<<<"def", SP, "f", "(", NLCH>>,
             Indent \o <<"self", ",", SP, "a", ":", SP, "bool", ",", SP, "b", NLCH>>,
             <<")", SP, "->", SP, "bool", ":", NLCH>>>>, 0, <<<<"t1">>, <<"t2">>>>, <<"r">>, <<>>),
     Input(<<<<"@", "g", NLCH>>,
             Indent \o <<"async", SP, "def", SP, "f", "(", "self", ",", SP, "a", ")", ":", NLCH>>,
             Indent \o Indent \o <<"x", NLCH>>>>, 1, <<<<"t1">>>>, <<"r">>, <<>>),
     Input(<<<<"@", "g", NLCH>>, <<"def", SP, "f", "(", "a", ")", ":", NLCH>>>>, 0,
           <<<<"t1">>>>, <<"r">>, <<>>),
     Input(<<<<"def", SP, "def", SP, "f", "(", "a", ")", ":", NLCH>>>>, 0,
           <<<<"t1">>>>, <<"r">>, <<>>),
     Input(<<<<"def", SP, "f", "(", NLCH>>,
             <<NLCH>>,
             Indent \o <<"a", ",", NLCH>>,
             Indent \o <<"#c", NLCH>>,
             Indent \o <<"b", ",", NLCH>>,
             <<")", ":", NLCH>>>>, 0, <<<<"t1">>, <<"t2">>>>, <<"r">>, <<>>)}

(* End-of-source family: every proper prefix of a header, followed by      *)
(* nothing                                                                 *)
TruncatedHeaders ==
    {<<"def", SP, "f", "(", "a", ",", SP, "b", ")", SP, "->", SP, "bool", ":">>,
     Indent \o <<"def", SP, "f", "(", "a", ")", ":">>,
     <<"def", SP, "f", "(", "a", SP, "=", SP, "lambda", SP, "x", ":", SP, "x", ")", ":">>}

EndOfSourceInputs ==
    {Input(IF k = 0 THEN <<>> ELSE <<Take(h, k)>>, 0, <<<<"t1">>, <<"t2">>>>, <<"r">>, <<>>) :
        <<h, k>> \in UNION {{h} \X (0..(Len(h) - 1)) : h \in TruncatedHeaders}}
    \cup
    {Input(<<<<"def", SP, "f", "(", "a", ",", NLCH>>>>, 0, <<<<"t1">>>>, <<"r">>, <<>>),
     Input(<<<<"def", SP, "f", "(", ")", NLCH>>, <<NLCH>>>>, 0, <<>>, <<"r">>, <<>>),
     Input(<<<<"def", SP, "f", "(", ")", NLCH>>, Indent \o <<"x", NLCH>>>>, 0, <<>>, <<"r">>, <<>>)}

(* Second-definition family: a header with a second def keyword in each of *)
(* the places a name can stand in                                          *)
SecondDefHeaders ==
    {<<"def", SP, "def", SP, "f", "(", "a", ")", ":", NLCH>>,
     <<"async", SP, "def", SP, "def", SP, "f", "(", ")", ":", NLCH>>,
     <<"def", SP, "f", "(", "def", ")", ":", NLCH>>,
     <<"def", SP, "f", "(", "a", ":", SP, "def", ")", ":", NLCH>>,
     <<"def", SP, "f", "(", "a", ":", SP, "x", ".", "def", ")", ":", NLCH>>,
     <<"def", SP, "f", "(", "a", SP, "=", SP, "def", ")", ":", NLCH>>,
     <<"def", SP, "f", "(", "a", SP, "=", SP, "1", SP, "def", ")", ":", NLCH>>,
     <<"def", SP, "f", "(", "a", ",", SP, "b", ")", SP, "->", SP, "def", ":", NLCH>>,
     <<"def", SP, "f", "(", "a", SP, "=", SP, "lambda", SP, "x", ":", SP, "def", ")", ":", NLCH>>,
     <<"def", SP, "f", "(", "a", SP, "=", SP, "lambda", SP, "def", ":", SP, "1", ",", SP, "b", ")",
       ":", NLCH>>,
     <<"def", SP, "f", "(", "a", ".", "def", ")", ":", NLCH>>}

SecondDefInputs ==
    {Input(<<h>>, 0, <<<<"t1">>, <<"t2">>>>, <<"r">>, <<>>) : h \in SecondDefHeaders}

Inputs ==
    PositionalInputs \cup DefaultInputs \cup TypeInputs \cup LayoutInputs
    \cup EndOfSourceInputs \cup SecondDefInputs

InitWith(inp) ==
    /\ src = inp.lines
    /\ annotation = [line |-> inp.line,
                     signature |-> [arg_types |-> inp.arg_types,
                                    return_type |-> inp.return_type],
                     path |-> inp.path]
    /\ pc = "tokenize_definition"
    /\ td = NewFrame(inp.line)
    /\ ga = NewLocals
    /\ slots = <<>>
    /\ result = Running
    /\ pass = 1
    /\ first = [text |-> <<>>, line_count |-> 0, slots |-> <<>>]

Init ==
    /\ \E inp \in Inputs : InitWith(inp)
    /\ ty = Unused
    /\ peer = Unused
    /\ ext = Unused
    /\ runner = Unused
    /\ handoff = Unused
    /\ conn = Unused

Next ==
    \/ TokenizeDefinition
    \/ TokenizeSignature
    \/ FindStart
    \/ FindSkips
    \/ ArgPlace
    \/ Arguments
    \/ HandleEnd
    \/ Trailing
    \/ SecondPass

Spec == Init /\ [][Next]_vars

(***************************************************************************)
(* One type string on its way through get_annotation: tokenize(arg),       *)
(* Parser(arg_tokens[arg_place]), parse_type() and get_typevalue_repr().   *)
(* ty is [pc, text, ignore_modules, parser, start, method, type_value,     *)
(* exc, msg, out]: start is the cursor at which method was called.         *)
(***************************************************************************)
\* the atoms a name is written with, up to MaxName of them
MaxName == 3
NameAtoms == {"T", "1", "-", "/", BQ, ".", ":", SP, "?"}
\* three dots in a row are the one atom "..."
Atomized(w) == \A k \in 1..(Len(w) - 2) : ~(w[k] = "." /\ w[k + 1] = "." /\ w[k + 2] = ".")
NameTexts ==
    {w \in UNION {[1..n -> NameAtoms] : n \in 1..MaxName} : Atomized(w)}
    \cup {<<"pytz", ".", "tzfile", ".">> \o w :
            w \in UNION {[1..n -> {"T", "/", "-", BQ}] : n \in 1..MaxName}}

\* type expressions nested up to MaxDepth
MaxDepth == 2
Leaves ==
    {<<"int">>, <<"typing", ".", "List">>, <<"builtins", ".", "list">>,
     <<"mypy_extensions", ".", "NoReturn">>, <<"Union", "[", "]">>, <<"mod", ":", "Foo">>,
     <<"typing", ".", "re", ".", "Pattern">>}
\* a name and whether it is applied to a second item
Wrappers ==
    {<<<<"Optional">>, FALSE>>, <<<<"Union">>, FALSE>>, <<<<"Union">>, TRUE>>,
     <<<<"List">>, FALSE>>, <<<<"typing", ".", "Dict">>, TRUE>>,
     <<<<"mod", ".", "Type">>, FALSE>>, <<<<>>, TRUE>>}
Wrap(name, x, second) ==
    name \o <<"[">> \o x \o (IF second THEN <<",", SP, "str">> ELSE <<>>) \o <<"]">>
RECURSIVE Nested(_)
Nested(depth) ==
    IF depth = 0 THEN Leaves
    ELSE Nested(depth - 1)
         \cup {Wrap(x[1][1], x[2], x[1][2]) : x \in Wrappers \X Nested(depth - 1)}

TypeTexts == NameTexts \cup Nested(MaxDepth) \cup TypeStrings

NewType(text, ignore_modules) ==
    [pc |-> "tokenize", text |-> text, ignore_modules |-> ignore_modules,
     parser |-> NewParser(<<>>), start |-> 0, method |-> "",
     type_value |-> TypeValue(<<>>, <<>>),
     exc |-> "", msg |-> "", out |-> <<>>]

\* tokenize(arg) and Parser(tokens)
TypeTokenize ==
    /\ ty.pc = "tokenize"
    /\ \E r \in {tokenize(ty.text)} :
       ty' = IF r.err # ""
             THEN [ty EXCEPT !.pc = "raised", !.exc = "ParseError", !.msg = "Could not parse"]
             ELSE [ty EXCEPT !.pc = "parse", !.parser = NewParser(r.tokens)]
    /\ UNCHANGED <<invocation, pass, first, peer, ext, runner, handoff, conn>>

\* parser.next()
TypeNext ==
    /\ ty.pc = "parse"
    /\ \E n \in {next(ty.parser.tokens, ty.parser.i)} :
       ty' = IF n.err # ""
             THEN [ty EXCEPT !.pc = "raised", !.exc = "ParseError", !.msg = n.err]
             ELSE [ty EXCEPT !.parser.i = n.i]
    /\ UNCHANGED <<invocation, pass, first, peer, ext, runner, handoff, conn>>

\* type_value = parser.parse_type(), or parser.parse_single() alone
TypeParse ==
    /\ ty.pc = "parse"
    /\ \E method \in {"parse_type", "parse_single"} :
       \E t \in {IF method = "parse_type" THEN parse_type(ty.parser.tokens, ty.parser.i)
                  ELSE parse_single(ty.parser.tokens, ty.parser.i)} :
          ty' = IF t.err # ""
                THEN [ty EXCEPT !.pc = "raised", !.exc = "ParseError", !.msg = t.err,
                                !.parser.i = t.i, !.start = ty.parser.i, !.method = method]
                ELSE [ty EXCEPT !.pc = "render", !.parser.i = t.i, !.type_value = t.v,
                                !.start = ty.parser.i, !.method = method]
    /\ UNCHANGED <<invocation, pass, first, peer, ext, runner, handoff, conn>>

\* get_typevalue_repr(type_value, ignore_modules)
TypeRender ==
    /\ ty.pc = "render"
    /\ ty' = [ty EXCEPT !.pc = "returned",
                        !.out = get_typevalue_repr(ty.type_value, ty.ignore_modules)]
    /\ UNCHANGED <<invocation, pass, first, peer, ext, runner, handoff, conn>>

TypeInit ==
    /\ \E text \in TypeTexts, ignore_modules \in {{}, {<<"mod">>}} :
          ty = NewType(text, ignore_modules)
    /\ src = <<>>
    /\ annotation = Unused
    /\ pc = "unused"
    /\ td = Unused
    /\ ga = Unused
    /\ slots = <<>>
    /\ result = Unused
    /\ pass = 0
    /\ first = Unused
    /\ peer = Unused
    /\ ext = Unused
    /\ runner = Unused
    /\ handoff = Unused
    /\ conn = Unused

TypeStep ==
    \/ TypeTokenize
    \/ TypeNext
    \/ TypeParse
    \/ TypeRender

TypeSpec == TypeInit /\ [][TypeStep]_vars

(***************************************************************************)
(* The header as its author wrote it and the header that is returned, cut  *)
(* into arguments.  These read the text only; none of them uses a token of *)
(* tokenize_definition.                                                    *)
(***************************************************************************)
Finished == pc \in {"returned", "raised"}

SourceText == Join(<<>>, SubSeq(src, annotation.line + 1, Len(src)))

IsOpen(a) == a \in {"(", "[", "{"}
IsClose(a) == a \in {")", "]", "}"}

RECURSIVE Depths(_, _)
\* the bracket depth after each atom of text
Depths(text, depth) ==
    IF text = <<>> THEN <<>>
    ELSE LET d == IF IsOpen(Head(text)) THEN depth + 1
                  ELSE IF IsClose(Head(text)) THEN depth - 1 ELSE depth
         IN <<d>> \o Depths(Tail(text), d)

\* the index of the parenthesis that closes the argument list, 0 if there is none
ClosingIndex(text) ==
    LET d == Depths(text, 0)
        ks == {k \in 1..Len(text) : text[k] = ")" /\ d[k] = 0}
    IN IF ks = {} THEN 0 ELSE CHOOSE k \in ks : \A j \in ks : k <= j

\* a header whose argument list is closed and that ends in its colon
IsComplete(text) ==
    /\ Contains(text, "(")
    /\ ClosingIndex(text) > FirstIndex(text, "(")
    /\ \E k \in (ClosingIndex(text) + 1)..Len(text) : text[k] = ":"

ArgumentList(text) == SubSeq(text, FirstIndex(text, "(") + 1, ClosingIndex(text) - 1)
AfterArguments(text) == Drop(text, ClosingIndex(text))

IsLayout(a) == a = SP \/ a = NLCH \/ IsComment(a)

RECURSIVE Lstrip(_)
Lstrip(s) == IF s # <<>> /\ IsLayout(Head(s)) THEN Lstrip(Tail(s)) ELSE s
RECURSIVE RstripLayout(_)
RstripLayout(s) == IF s # <<>> /\ IsLayout(Last(s)) THEN RstripLayout(Front(s)) ELSE s
Strip(s) == RstripLayout(Lstrip(s))

RECURSIVE SplitArguments(_, _, _, _)
\* the arguments of an argument list: the pieces between the commas that are
\* neither inside brackets nor among the parameters of a lambda
SplitArguments(text, depth, lam, cur) ==
    IF text = <<>> THEN <<cur>>
    ELSE LET a == Head(text) IN
         IF a = "," /\ depth = 0 /\ ~lam
         THEN <<cur>> \o SplitArguments(Tail(text), 0, FALSE, <<>>)
         ELSE SplitArguments(Tail(text),
                             IF IsOpen(a) THEN depth + 1 ELSE IF IsClose(a) THEN depth - 1 ELSE depth,
                             IF a = "lambda" /\ depth = 0 THEN TRUE ELSE IF a = ":" THEN FALSE ELSE lam,
                             cur \o <<a>>)

ArgumentsOf(text) ==
    IF ~IsComplete(text) THEN <<>>
    ELSE LET parts == SplitArguments(ArgumentList(text), 0, FALSE, <<>>)
             stripped == [k \in 1..Len(parts) |-> Strip(parts[k])]
         IN SelectSeq(stripped, LAMBDA x : x # <<>>)

SourceArguments == ArgumentsOf(SourceText)
OutputArguments == ArgumentsOf(result.text \o <<NLCH>>)

IsMarker(item) == item \in {<<"*">>, <<"/">>}
NameIndex(item) == IF item[1] \in {"*", "**"} THEN 2 ELSE 1
NameOf(item) == Take(item, NameIndex(item))
HasAnnotation(item) ==
    ~IsMarker(item) /\ Len(item) > NameIndex(item) /\ item[NameIndex(item) + 1] = ":"
HasDefault(item) == Contains(item, "=")
\* name[: annotation][ = default]
AnnotationOf(item) ==
    SubSeq(item, NameIndex(item) + 3,
           IF HasDefault(item) THEN FirstIndex(item, "=") - 2 ELSE Len(item))
DefaultOf(item) == Lstrip(Drop(item, FirstIndex(item, "=")))
UpToDefault(item) == IF HasDefault(item) THEN Take(item, FirstIndex(item, "=") - 2) ELSE item
FromDefault(item) == IF HasDefault(item) THEN Drop(item, FirstIndex(item, "=") - 2) ELSE <<>>

HasReturnAnnotation(text) == IsComplete(text) /\ Contains(AfterArguments(text), "->")
ReturnAnnotationOf(text) ==
    LET rest == AfterArguments(text)
    IN Strip(SubSeq(rest, FirstIndex(rest, "->") + 1, LastIndex(rest, ":") - 1))

EndsWith(s, p) == Len(s) >= Len(p) /\ Drop(s, Len(s) - Len(p)) = p

\* a type string as the parser reads it and the renderer writes it
Rendering(text, ignore) ==
    LET t == tokenize(text)
        v == parse_type(t.tokens, 0)
    IN IF t.err # "" \/ v.err # "" THEN NONE ELSE get_typevalue_repr(v.v, ignore)

RECURSIVE SplitUnion(_, _, _)
\* the members of a union written with bars
SplitUnion(text, depth, cur) ==
    IF text = <<>> THEN <<cur>>
    ELSE LET a == Head(text) IN
         IF a = "|" /\ depth = 0
         THEN <<cur>> \o SplitUnion(Tail(text), 0, <<>>)
         ELSE SplitUnion(Tail(text),
                         IF IsOpen(a) THEN depth + 1 ELSE IF IsClose(a) THEN depth - 1 ELSE depth,
                         cur \o <<a>>)

\* an annotation of the source as the renderer writes it; the lexer of type
\* strings has no bar, so a union written with bars is rendered member by member
Rerendering(text, ignore) ==
    LET members == SplitUnion(text, 0, <<>>)
        parts == [k \in 1..Len(members) |-> Rendering(Strip(members[k]), ignore)]
    IN IF \E k \in 1..Len(parts) : parts[k] = NONE THEN NONE
       ELSE Join(<<SP, "|", SP>>, parts)

\* the leading self or cls of a method
IsSelf(item) == item \in {<<"self">>, <<"cls">>}
FirstIsSelf == SourceArguments # <<>> /\ IsSelf(SourceArguments[1])

\* the arguments that the inferred types are listed for
Typed == {j \in 1..Len(SourceArguments) :
            ~IsMarker(SourceArguments[j]) /\ ~(j = 1 /\ FirstIsSelf)}
\* the index into arg_types of source argument j
TypeIndex(j) == Cardinality({i \in Typed : i <= j})
ArgTypes == annotation.signature.arg_types

(***************************************************************************)
(* Properties                                                              *)
(***************************************************************************)

\* C1: get_annotation is idempotent: when it is run again on the text it
\* returned, with the same signature, it returns the same text, and every
\* argument that was annotated on the first pass is found annotated on the
\* second pass and keeps its annotation.
C1_Idempotent ==
    (pass = 2 /\ Finished) =>
        /\ pc = "returned"
        /\ result.text = first.text
        /\ Len(slots) = Len(first.slots)
        /\ \A j \in 1..Len(first.slots) :
              first.slots[j].kind \in {"own", "inferred"} =>
                  /\ j <= Len(slots)
                  /\ slots[j].kind = "own"
                  /\ slots[j].type_text = first.slots[j].type_text

\* C2: an argument that carries an annotation in the source keeps it: the
\* annotation in the returned header is the re-rendering of the annotation
\* the user wrote, whatever the argument position and the inferred types,
\* and on the first pass no inferred type is written for it.
C2_OwnAnnotationKept ==
    pc = "returned" =>
        /\ Len(OutputArguments) = Len(SourceArguments)
        /\ \A j \in 1..Len(SourceArguments) :
              HasAnnotation(SourceArguments[j]) =>
                  /\ HasAnnotation(OutputArguments[j])
                  /\ NameOf(OutputArguments[j]) = NameOf(SourceArguments[j])
                  /\ AnnotationOf(OutputArguments[j])
                        = Rerendering(AnnotationOf(SourceArguments[j]),
                                      IgnoreModules(annotation.path))
                  /\ pass = 1 =>
                        \A k \in 1..Len(TypeNames) :
                            ~Contains(UpToDefault(OutputArguments[j]), TypeNames[k])

\* C2 happens: a header was returned in which an annotated argument sits at a
\* place for which an inferred type was available.
C2_Witness ==
    /\ pc = "returned"
    /\ pass = 1
    /\ \E j \in 1..Len(slots) :
          /\ slots[j].kind = "own"
          /\ slots[j].place \in 0..(Len(ArgTypes) - 1)
          /\ slots[j].argument \notin ga.skip_args
          /\ j <= Len(SourceArguments) /\ HasAnnotation(SourceArguments[j])

HasBareMarker == \E j \in 1..Len(SourceArguments) : IsMarker(SourceArguments[j])

\* what the header is to become: argument j with the inferred type of its
\* index among the arguments that are neither self nor a marker
Expected(j) ==
    LET item == SourceArguments[j] IN
    IF j \notin Typed \/ HasAnnotation(item) THEN UpToDefault(item)
    ELSE NameOf(item) \o <<":", SP>>
         \o Rendering(ArgTypes[TypeIndex(j)], IgnoreModules(annotation.path))

\* C3: bare * and / markers take a position, never a type, and leave the
\* matching of the other arguments alone: with one inferred type for each
\* argument that is neither self nor a marker, in the order of the header,
\* every such argument without an annotation of its own gets its type.
C3_MarkersDoNotDisturb ==
    (Finished /\ pass = 1 /\ HasBareMarker /\ Len(ArgTypes) = Cardinality(Typed)) =>
        /\ pc = "returned"
        /\ Len(OutputArguments) = Len(SourceArguments)
        /\ \A j \in 1..Len(SourceArguments) :
              UpToDefault(OutputArguments[j]) = Expected(j)

IsPlainMethod ==
    /\ FirstIsSelf
    /\ \A j \in 2..Len(SourceArguments) :
          Len(SourceArguments[j]) = 1 /\ ~IsMarker(SourceArguments[j])

\* C4: for a method whose self is followed by n plain arguments without
\* annotations, and n inferred types, self stays without an annotation and
\* the i-th argument after it gets the rendering of the i-th inferred type.
C4_MethodPositional ==
    (Finished /\ pass = 1 /\ IsPlainMethod /\ Len(ArgTypes) = Len(SourceArguments) - 1) =>
        /\ pc = "returned"
        /\ Len(OutputArguments) = Len(SourceArguments)
        /\ OutputArguments[1] = SourceArguments[1]
        /\ \A j \in 2..Len(SourceArguments) :
              OutputArguments[j]
                 = SourceArguments[j] \o <<":", SP>>
                   \o Rendering(ArgTypes[j - 1], IgnoreModules(annotation.path))

\* C4 happens: a method with at least two arguments after self was annotated.
C4_Witness ==
    /\ pc = "returned"
    /\ pass = 1
    /\ IsPlainMethod
    /\ Len(SourceArguments) >= 3
    /\ Len(ArgTypes) = Len(SourceArguments) - 1

\* C5 as stated: without a return annotation in the source the returned
\* header ends in " -> ", the rendered inferred return type and the colon;
\* with one, it ends in the return annotation exactly as it was written.
C5_ReturnUntouched ==
    pc = "returned" =>
        IF HasReturnAnnotation(SourceText)
        THEN EndsWith(result.text, <<SP, "->", SP>> \o ReturnAnnotationOf(SourceText) \o <<":">>)
        ELSE EndsWith(result.text,
                      <<SP, "->", SP>> \o Rendering(annotation.signature.return_type, {})
                      \o <<":">>)

\* C5: without a return annotation in the source the returned header ends in
\* " -> ", the rendered inferred return type and the colon; with one, it
\* ends in " -> ", the re-rendering of the return annotation that was
\* written and the colon, and the inferred return type is not used.
C5_ReturnRendered ==
    pc = "returned" =>
        EndsWith(result.text,
                 <<SP, "->", SP>>
                 \o (IF HasReturnAnnotation(SourceText)
                     THEN Rerendering(ReturnAnnotationOf(SourceText), {})
                     ELSE Rendering(annotation.signature.return_type, {}))
                 \o <<":">>)

\* C5 happens: a header was returned whose return annotation differs from
\* its re-rendering and from the inferred return type.
C5_Witness ==
    /\ pc = "returned"
    /\ pass = 1
    /\ HasReturnAnnotation(SourceText)
    /\ Rerendering(ReturnAnnotationOf(SourceText), {}) # ReturnAnnotationOf(SourceText)
    /\ Rerendering(ReturnAnnotationOf(SourceText), {})
          # Rendering(annotation.signature.return_type, {})

FullyAnnotated ==
    /\ IsComplete(SourceText)
    /\ HasReturnAnnotation(SourceText)
    /\ \A j \in 1..Len(SourceArguments) :
          IsMarker(SourceArguments[j]) \/ HasAnnotation(SourceArguments[j])

\* every annotation of the source is spelled as the renderer spells it
CanonicalTypes ==
    /\ Rerendering(ReturnAnnotationOf(SourceText), {}) = ReturnAnnotationOf(SourceText)
    /\ \A j \in 1..Len(SourceArguments) :
          HasAnnotation(SourceArguments[j]) =>
              Rerendering(AnnotationOf(SourceArguments[j]), IgnoreModules(annotation.path))
                 = AnnotationOf(SourceArguments[j])

NoDefaults == \A j \in 1..Len(SourceArguments) : ~HasDefault(SourceArguments[j])

\* C6: a header in which every argument and the return value carry an
\* annotation, spelled as the renderer spells it, is returned character for
\* character: markers, commas, line breaks and indentation included (here
\* for the headers without default values).
C6_RoundTrip ==
    (Finished /\ pass = 1 /\ FullyAnnotated /\ CanonicalTypes /\ NoDefaults) =>
        /\ pc = "returned"
        /\ result.text \o <<NLCH>> = SourceText

BinaryOperators == {"+", "-", "*", "/", "//", "%", "@", "**", "^", "&", "|", ">>", "<<", "==", "<"}

PrevSolid(t, k) ==
    LET js == {j \in 1..(k - 1) : t[j] # SP}
    IN IF js = {} THEN 0 ELSE CHOOSE j \in js : \A i \in js : i <= j
\* the operator at k stands between two operands
IsBinaryAt(t, k) ==
    /\ k \in 1..Len(t)
    /\ t[k] \in BinaryOperators
    /\ PrevSolid(t, k) # 0
    /\ (t[PrevSolid(t, k)] \notin OpAtoms \/ IsClose(t[PrevSolid(t, k)]))
\* text without the blanks next to its binary operators
WithoutOperatorSpacing(t) ==
    LET keep == {k \in 1..Len(t) : ~(t[k] = SP /\ (IsBinaryAt(t, k - 1) \/ IsBinaryAt(t, k + 1)))}
        F[k \in 0..Len(t)] ==
            IF k = 0 THEN <<>> ELSE IF k \in keep THEN Append(F[k - 1], t[k]) ELSE F[k - 1]
    IN F[Len(t)]

HasLambdaDefault ==
    /\ IsComplete(SourceText)
    /\ \E j \in 1..Len(SourceArguments) :
          HasDefault(SourceArguments[j]) /\ DefaultOf(SourceArguments[j])[1] = "lambda"

\* a default that is neither a bracketed collection literal nor a lambda
HasPlainDefault(item) ==
    HasDefault(item) /\ ~IsOpen(DefaultOf(item)[1]) /\ DefaultOf(item)[1] # "lambda"

\* C7: a default that is not a bracketed collection literal (a dotted name,
\* a unary or binary expression, a call, a string, a number) is returned as
\* " = " and the default expression as written, up to the blanks around
\* binary operators, whether or not a type was put before it.
C7_DefaultsKept ==
    (Finished /\ pass = 1 /\ IsComplete(SourceText)
       /\ (\E j \in 1..Len(SourceArguments) : HasPlainDefault(SourceArguments[j]))
       /\ ~HasLambdaDefault) =>
        /\ pc = "returned"
        /\ Len(OutputArguments) = Len(SourceArguments)
        /\ \A j \in 1..Len(SourceArguments) :
              HasPlainDefault(SourceArguments[j]) =>
                  /\ HasDefault(OutputArguments[j])
                  /\ Take(FromDefault(OutputArguments[j]), 3) = <<SP, "=", SP>>
                  /\ WithoutOperatorSpacing(DefaultOf(OutputArguments[j]))
                        = WithoutOperatorSpacing(DefaultOf(SourceArguments[j]))

LambdaBodies == SelectSeq(td.tokens, LAMBDA t : isinstance(t, "LambdaBody"))
SourceLambdas ==
    SelectSeq([j \in 1..Len(SourceArguments) |->
                   IF HasDefault(SourceArguments[j]) /\ DefaultOf(SourceArguments[j])[1] = "lambda"
                   THEN Tail(DefaultOf(SourceArguments[j])) ELSE <<>>],
              LAMBDA x : x # <<>>)

\* C8: while a header with a lambda default is tokenized the bracket depth
\* is never negative, it is 0 when EndDefinition is emitted, and each
\* LambdaBody token holds the whole body of its lambda.
C8_LambdaBalanced ==
    (pass = 1 /\ HasLambdaDefault) =>
        /\ td.brackets >= 0
        /\ (td.tokens # <<>> /\ isinstance(Last(td.tokens), "EndDefinition")) => td.brackets = 0
        /\ \A k \in 1..Len(LambdaBodies) :
              Remove(LambdaBodies[k].text, SP) = Remove(SourceLambdas[k], SP)
        /\ Finished => (pc = "returned" /\ Len(LambdaBodies) = Len(SourceLambdas))

\* C9: get_annotation returns a text or raises ParseError, whatever the
\* number of inferred types: no other exception leaves it, and an inferred
\* type is only read at an index i with 0 <= i < len(arg_types).
C9_ParseErrorOnly ==
    IsComplete(SourceText) =>
        /\ pc = "raised" => result.exc = "ParseError"
        /\ \A j \in 1..Len(slots) :
              slots[j].kind = "inferred" => slots[j].place \in 0..(Len(ArgTypes) - 1)

\* get_line was asked for a line after the last one
SourceExhausted == \E k \in 1..Len(td.reads) : td.reads[k] >= Len(src)

\* C10: when the source ends before the colon that ends the definition,
\* get_annotation raises ParseError with the message "Reached End of File,
\* expected end of definition".
C10_EndOfFileIsParseError ==
    (Finished /\ pass = 1 /\ SourceExhausted) =>
        /\ pc = "raised"
        /\ result.exc = "ParseError"
        /\ result.msg = "Reached End of File, expected end of definition"


(***************************************************************************)
(* C11.  A second definition keyword                                       *)
(***************************************************************************)
\* the text the source tokenizer has gone over: the lines before the one it
\* scans and that line up to its position
Consumed ==
    Join(<<>>, SubSeq(src, td.start_line + 1, td.current_line_no - 1))
    \o Take(td.token_generator.line, td.token_generator.pos - 1)

\* how many def keywords the source tokenizer has gone over
DefsRead == Cardinality({k \in 1..Len(Consumed) : Consumed[k] = "def"})

\* C11: once a second def keyword of the header has been read, get_annotation
\* has raised ParseError("Did not expect second definition keyword") and
\* returns no text, wherever in the header that keyword stands.
C11_SecondDefRejected ==
    DefsRead >= 2 =>
        /\ pc = "raised"
        /\ result = Raised("ParseError", "Did not expect second definition keyword")

(***************************************************************************)
(* C12.  Token streams                                                     *)
(***************************************************************************)
\* get_annotation on a header, or one type string through tokenize and Parser
StreamInit == Init \/ TypeInit
StreamNext == Next \/ TypeStep
StreamSpec == StreamInit /\ [][StreamNext]_vars

\* exactly one End token, and that one last
Terminated(tokens) ==
    /\ tokens # <<>>
    /\ Last(tokens) = End
    /\ \A k \in 1..(Len(tokens) - 1) : ~isinstance(tokens[k], "End")

\* the Parser objects that exist in the state
Parsers ==
    (IF pc \in {"find_start", "find_skips", "arg_place", "arguments", "end", "trailing",
                "returned"}
     THEN {ga.parser} ELSE {})
    \cup (IF pc \in {"arg_place", "arguments", "end", "trailing", "returned"}
          THEN {ga.argparser} ELSE {})
    \cup (IF pc = "raised" THEN {P \in {ga.parser, ga.argparser} : P.tokens # <<>>} ELSE {})
    \cup (IF ty.pc \in {"parse", "render", "returned"} THEN {ty.parser} ELSE {})
    \cup (IF ty.pc = "raised" /\ ty.parser.tokens # <<>> THEN {ty.parser} ELSE {})

\* the token lists tokenize and tokenize_definition have returned
Returned_tokens ==
    IF pc \in {"unused", "tokenize_definition"} THEN {}
    ELSE IF pc = "tokenize_signature" THEN {ga.def_tokens}
    ELSE IF pc = "raised"
    THEN {L \in {ga.def_tokens, ga.return_tokens} : L # <<>>}
         \cup {ga.arg_tokens[k] : k \in 1..Len(ga.arg_tokens)}
    ELSE {ga.def_tokens, ga.return_tokens}
         \cup {ga.arg_tokens[k] : k \in 1..Len(ga.arg_tokens)}

\* C12: every token list returned by tokenize and tokenize_definition, and
\* every token list a Parser holds (the one rebuilt for the return type
\* included), ends with its only End token; the cursor of a Parser stays
\* inside 0..len(tokens), and peek and next at len(tokens) fail with
\* ParseError("Ran out of tokens").
C12_StreamsTerminated ==
    /\ \A tokens \in Returned_tokens : Terminated(tokens)
    /\ \A P \in Parsers :
          /\ Terminated(P.tokens)
          /\ P.i \in 0..Len(P.tokens)
          /\ peek(P.tokens, Len(P.tokens)) = fail(Len(P.tokens), "Ran out of tokens")
          /\ next(P.tokens, Len(P.tokens)) = fail(Len(P.tokens), "Ran out of tokens")
    /\ (ty.pc = "raised" /\ ty.msg = "Ran out of tokens")
          => ty.parser.i = Len(ty.parser.tokens)

\* a Parser was stepped over its End token and the next read failed
C12_Witness ==
    /\ ty.pc = "raised"
    /\ ty.msg = "Ran out of tokens"
    /\ Len(ty.parser.tokens) > 1
    /\ Terminated(ty.parser.tokens)

(***************************************************************************)
(* C13.  Names that are no Python names                                    *)
(***************************************************************************)
\* the type string as the loop of tokenize sees it
Loose == Remove(ty.text, "?")

\* an atom at which tokenize can begin a token or that it skips
Startable(a) ==
    \/ a \in {SP, NLCH, "(", ")", "[", "]", ",", "*", "->", "..."}
    \/ IsHead(a)

\* the type string is one name from its first to its last atom
IsOneName == Loose # <<>> /\ TOKENIZE_PATTERN(Loose) = Len(Loose)

\* the name the lexer is to give for the one name written in w: cut at the
\* first backtick, then the pytz rewrite, then Any for what holds "-" or "/"
Degraded(w) ==
    LET bare == SelectSeq(w, LAMBDA a : a # SP)
        ticks == {k \in 1..Len(bare) : bare[k] = BQ}
        cut == IF ticks = {} THEN bare
               ELSE SubSeq(bare, 1, (CHOOSE k \in ticks : \A j \in ticks : k <= j) - 1)
        zone == Len(cut) >= 4 /\ SubSeq(cut, 1, 4) = <<"pytz", ".", "tzfile", ".">>
    IN IF zone THEN <<"datetime", ".", "tzinfo">>
       ELSE IF \E k \in 1..Len(cut) : cut[k] \in {"-", "/"} THEN <<"Any">>
       ELSE cut

\* C13: tokenize raises ParseError only on a type string that holds an atom
\* no token can begin with; no DottedName it returns holds "-", "/" or a
\* backtick; and a type string that is one name gives the one DottedName of
\* that name cut at the backtick, rewritten for pytz.tzfile. and, when "-" or
\* "/" is still in it, replaced by Any.
C13_LexerDegrades ==
    /\ (ty.pc = "raised" /\ ty.msg = "Could not parse")
          => \E k \in 1..Len(Loose) : ~Startable(Loose[k])
    /\ ty.pc \in {"parse", "render", "returned"} =>
          \A k \in 1..Len(ty.parser.tokens) :
             isinstance(ty.parser.tokens[k], "DottedName") =>
                \A j \in 1..Len(ty.parser.tokens[k].text) :
                   ty.parser.tokens[k].text[j] \notin {"-", "/", BQ}
    /\ (ty.pc # "unused" /\ ty.pc # "tokenize" /\ IsOneName) =>
          /\ ty.msg # "Could not parse"
          /\ ty.parser.tokens = <<Tok("DottedName", Degraded(Loose)), End>>

\* a name with "-" in it has become Any
C13_Witness ==
    /\ ty.pc = "parse"
    /\ IsOneName
    /\ \E k \in 1..Len(Loose) : Loose[k] \in {"-", "/"}
    /\ ty.parser.tokens = <<Tok("DottedName", <<"Any">>), End>>

(***************************************************************************)
(* C14.  Union and Optional                                                *)
(***************************************************************************)
RECURSIVE Nodes(_)
\* the TypeValue objects of a tree
Nodes(type_value) ==
    {type_value} \cup UNION {Nodes(type_value.args[k]) : k \in 1..Len(type_value.args)}

\* the type string is name[...] and a parse method was called at its first token
IsApplied(name) ==
    /\ ty.method # ""
    /\ ty.start = 0
    /\ Len(ty.text) >= Len(name) + 2
    /\ SubSeq(ty.text, 1, Len(name) + 1) = name \o <<"[">>
    /\ Last(ty.text) = "]"

\* what stands between the brackets of name[...], as a list of types
Between(name) ==
    LET inner == tokenize(SubSeq(ty.text, Len(name) + 2, Len(ty.text) - 1))
        list == parse_type_list(Append(Front(inner.tokens), Tok("Separator", <<"]">>)), 0)
    IN IF inner.err # "" THEN [ok |-> FALSE, items |-> <<>>]
       ELSE [ok |-> list.err = "" /\ list.i = Len(inner.tokens) - 1, items |-> list.v]

Renderings(types) == [k \in 1..Len(types) |-> get_typevalue_repr(types[k], ty.ignore_modules)]

Parsed == ty.pc \in {"render", "returned"}

\* C14: parse_single and parse_type never produce a Union of fewer than two
\* items; Optional[X] parses to Union(X, None) and renders as "X | None";
\* Union[X] parses to X; Union[] fails with "No items in Union"; Union[X, Y,
\* ...] parses to the Union of its items; and a Union of two or more items
\* renders its items joined by " | ".
C14_UnionNormalized ==
    /\ Parsed => \A node \in Nodes(ty.type_value) :
                    node.name = <<"Union">> => Len(node.args) >= 2
    /\ (IsApplied(<<"Optional">>) /\ Between(<<"Optional">>).ok
         /\ Len(Between(<<"Optional">>).items) = 1) =>
          /\ Parsed
          /\ ty.type_value = TypeValue(<<"Union">>, <<Between(<<"Optional">>).items[1],
                                                     TypeValue(<<"None">>, <<>>)>>)
          /\ ty.pc = "returned" =>
                ty.out = Renderings(Between(<<"Optional">>).items)[1] \o <<SP, "|", SP, "None">>
    /\ (IsApplied(<<"Union">>) /\ Between(<<"Union">>).ok) =>
          CASE Len(Between(<<"Union">>).items) = 0 ->
                 ty.pc = "raised" /\ ty.msg = "No items in Union"
            [] Len(Between(<<"Union">>).items) = 1 ->
                 Parsed /\ ty.type_value = Between(<<"Union">>).items[1]
            [] OTHER ->
                 Parsed /\ ty.type_value = TypeValue(<<"Union">>, Between(<<"Union">>).items)
    /\ (ty.pc = "returned" /\ ty.type_value.name = <<"Union">>) =>
          ty.out = Join(<<SP, "|", SP>>, Renderings(ty.type_value.args))

\* Union[X] was parsed by parse_single and gave X alone
C14_Witness ==
    /\ ty.pc = "returned"
    /\ ty.method = "parse_single"
    /\ IsApplied(<<"Union">>)
    /\ Between(<<"Union">>).ok
    /\ Len(Between(<<"Union">>).items) = 1
    /\ ty.type_value = Between(<<"Union">>).items[1]

(***************************************************************************)
(* C15: the names the renderer shows                                       *)
(***************************************************************************)
DisplayModules == {<<"typing">>, <<"mypy_extensions">>}

\* the segment of name before its first separator, and what follows it
Leading(name, separator) == Take(name, FirstIndex(name, separator) - 1)
Remainder(name, separator) == Drop(name, FirstIndex(name, separator))
\* the last dot-separated component of name
Trailing_component(name) == Drop(name, LastIndex(name, "."))

Legacy(name) == IF name \in TYPING_LOWER THEN lower(name) ELSE name

\* name is cut at separator: the segment before it is a display module or
\* one of the modules to ignore
CutAt(name, separator, ignore_modules) ==
    /\ Contains(name, separator)
    /\ Leading(name, separator) \in DisplayModules \cup ignore_modules

\* the name get_type_repr answers with: the dot is tried before the colon
Shown(name, ignore_modules) ==
    CASE CutAt(name, ".", ignore_modules) ->
           IF Leading(name, ".") \in DisplayModules
           THEN Legacy(Remainder(name, ".")) ELSE Remainder(name, ".")
      [] ~CutAt(name, ".", ignore_modules) /\ CutAt(name, ":", ignore_modules) ->
           IF Leading(name, ":") \in DisplayModules
           THEN Legacy(Remainder(name, ":")) ELSE Remainder(name, ":")
      [] OTHER -> name

Rendered == ty.pc = "returned"

\* the levels of the rendered tree that show their own name
Named(node) ==
    \/ Shown(node.name, ty.ignore_modules) \notin {<<"Union">>, <<"__hacks_DictItem">>}
    \/ node.args = <<>>

\* C15: get_type_repr removes the leading segment of a name, up to its first
\* "." or else its first ":", when that segment is typing or mypy_extensions
\* (the whole remainder is kept, lower-cased when it is one of List, Set,
\* Type, Dict, Tuple, Overload) or one of ignore_modules (the remainder is
\* kept as it is), and leaves every other name unchanged; get_typevalue_repr
\* shows that name, lower-cased when it is one of the six, at every level of
\* the TypeValue tree.
C15_RendererNames ==
    Rendered =>
      \A node \in Nodes(ty.type_value) :
         /\ get_type_repr(node.name, ty.ignore_modules) = Shown(node.name, ty.ignore_modules)
         /\ Named(node) =>
              \E shown \in {Legacy(Shown(node.name, ty.ignore_modules))} :
              \E out \in {get_typevalue_repr(node, ty.ignore_modules)} :
                 IF node.args = <<>>
                 THEN out = (IF shown = <<>> THEN <<"[", "]">> ELSE shown)
                 ELSE /\ Len(out) > Len(shown) + 1
                      /\ Take(out, Len(shown)) = shown
                      /\ out[Len(shown) + 1] = "["
                      /\ out[Len(out)] = "]"
         /\ node = ty.type_value => ty.out = get_typevalue_repr(node, ty.ignore_modules)

\* C15 as first stated: a dotted name led by typing or mypy_extensions is
\* reduced by get_type_repr to its trailing component, and every other
\* dotted name is left unchanged.
C15_AsClaimed ==
    Rendered =>
      \A node \in Nodes(ty.type_value) :
         Contains(node.name, ".") =>
            get_type_repr(node.name, ty.ignore_modules) =
               IF Leading(node.name, ".") \in DisplayModules
               THEN Trailing_component(node.name) ELSE node.name

\* List[typing.Dict[...]] was rendered: a legacy name at two levels
C15_Witness ==
    /\ Rendered
    /\ ty.type_value.name = <<"List">>
    /\ Len(ty.type_value.args) >= 1
    /\ ty.type_value.args[1].name = <<"typing", ".", "Dict">>
    /\ Len(ty.type_value.args[1].args) >= 1
    /\ Take(ty.out, 4) = <<"list", "[", "dict", "[">>

(***************************************************************************)
(* Two invocations of get_annotation on one interpreter.  The variables of *)
(* an invocation hold the call that runs; peer holds the other call, as    *)
(* [pc, running, inputs, other, mixed, interleaved]: pc is "interleaved"   *)
(* while the two calls take turns at any statement and "sequential" while  *)
(* the same two calls run again one after the other, running is the call   *)
(* that runs (1 or 2), other is the frame of the call that waits, mixed    *)
(* tells that a call was suspended before its end, and interleaved keeps   *)
(* the results of the calls that took turns.                               *)
(***************************************************************************)
Final == {"returned", "raised"}

ConcurrentInputs ==
    LayoutInputs
    \cup {Input(<<<<"def", SP, "f", "(", "a", ",", NLCH>>>>, 0, <<<<"t1">>>>, <<"r">>, <<>>),
          Input(<<<<"def", SP, "f", "(", ")", NLCH>>, Indent \o <<"x", NLCH>>>>, 0, <<>>, <<"r">>, <<>>),
          Input(<<<<"def", SP, "f", "(", "a", ")", ":", NLCH>>>>, 0, <<<<"int", "?">>>>, <<"r">>, <<>>),
          Input(<<<<"def", SP, "f", "(", "a", ")", ":", NLCH>>>>, 0, <<<<"List", "[", "int", "]">>>>,
                <<"mod", ".", "Foo">>, <<"/", "x", "/", "mod", ".", "py">>)}

\* the frame of the call that runs
Frame ==
    [src |-> src, annotation |-> annotation, pc |-> pc, td |-> td, ga |-> ga,
     slots |-> slots, result |-> result]

\* the frame of get_annotation(annotation, get_line) at its first statement;
\* get_line is a closure over the lines of inp alone
Called(inp) ==
    [src |-> inp.lines,
     annotation |-> [line |-> inp.line,
                     signature |-> [arg_types |-> inp.arg_types,
                                    return_type |-> inp.return_type],
                     path |-> inp.path],
     pc |-> "tokenize_definition", td |-> NewFrame(inp.line), ga |-> NewLocals,
     slots |-> <<>>, result |-> Running]

\* the interpreter goes on with the frame f
Resume(f) ==
    /\ src' = f.src
    /\ annotation' = f.annotation
    /\ pc' = f.pc
    /\ td' = f.td
    /\ ga' = f.ga
    /\ slots' = f.slots
    /\ result' = f.result

\* a switch after which read_line counts the lines of both calls in one
\* current_line_no
Switch_SharedLineNo ==
    /\ peer.pc \in {"interleaved", "sequential"}
    /\ peer.other.pc \notin Final
    /\ peer.pc = "sequential" => pc \in Final
    /\ Resume([peer.other EXCEPT !.td.current_line_no = td.current_line_no])
    /\ peer' = [peer EXCEPT !.other = Frame, !.running = 3 - @,
                            !.mixed = @ \/ pc \notin Final]
    /\ UNCHANGED <<pass, first, ty, ext, runner, handoff, conn>>

\* the running call is suspended with its locals and the closure state of
\* tokenize_definition (current_line_no and the rest of its frame), and the
\* waiting call goes on with its own
Switch ==
    /\ peer.pc \in {"interleaved", "sequential"}
    /\ peer.other.pc \notin Final
    /\ peer.pc = "sequential" => pc \in Final
    /\ Resume(peer.other)
    /\ peer' = [peer EXCEPT !.other = Frame, !.running = 3 - @,
                            !.mixed = @ \/ pc \notin Final]
    /\ UNCHANGED <<pass, first, ty, ext, runner, handoff, conn>>

\* both calls are over: the same two calls are made again, the second one
\* after the first one has ended
Sequential ==
    /\ peer.pc = "interleaved"
    /\ pc \in Final
    /\ peer.other.pc \in Final
    /\ Resume(Called(peer.inputs[1]))
    /\ peer' = [peer EXCEPT !.pc = "sequential", !.running = 1,
                            !.other = Called(peer.inputs[2]),
                            !.interleaved = IF peer.running = 1
                                            THEN <<result, peer.other.result>>
                                            ELSE <<peer.other.result, result>>]
    /\ UNCHANGED <<pass, first, ty, ext, runner, handoff, conn>>

ConcurrentInit ==
    /\ \E one \in ConcurrentInputs, two \in ConcurrentInputs :
          /\ src = Called(one).src
          /\ annotation = Called(one).annotation
          /\ pc = Called(one).pc
          /\ td = Called(one).td
          /\ ga = Called(one).ga
          /\ slots = Called(one).slots
          /\ result = Called(one).result
          /\ peer = [pc |-> "interleaved", running |-> 1, inputs |-> <<one, two>>,
                     other |-> Called(two), mixed |-> FALSE,
                     interleaved |-> <<Running, Running>>]
    /\ pass = 0
    /\ first = Unused
    /\ ty = Unused
    /\ ext = Unused
    /\ runner = Unused
    /\ handoff = Unused
    /\ conn = Unused

ConcurrentNext ==
    \/ TokenizeDefinition
    \/ TokenizeSignature
    \/ FindStart
    \/ FindSkips
    \/ ArgPlace
    \/ Arguments
    \/ HandleEnd
    \/ Trailing
    \/ Switch
    \/ Sequential

ConcurrentSpec == ConcurrentInit /\ [][ConcurrentNext]_vars

(***************************************************************************)
(* C16: calls that take turns                                              *)
(***************************************************************************)
\* the results of the calls that run one after the other are the results
\* the same calls gave when they took turns
SameResults ==
    peer.pc = "sequential" =>
       /\ pc \in Final => result = peer.interleaved[peer.running]
       /\ peer.other.pc \in Final => peer.other.result = peer.interleaved[3 - peer.running]

\* a statement of the running call leaves the frame of the waiting call as
\* it is, and a switch hands each call the frame it was suspended with
Isolated ==
    (peer'.pc = peer.pc) =>
       IF peer'.running = peer.running
       THEN peer'.other = peer.other
       ELSE peer'.other = Frame /\ Frame' = peer.other

NonDecreasing(s) == \A k \in 1..(Len(s) - 1) : s[k] <= s[k + 1]

\* the calls of get_line that read_line made
LinesRead == Len(td.reads) - td.lookaheads

\* C17: within one get_annotation call the line indices passed to get_line,
\* by read_line and by the indentation look-ahead of the NL/NEWLINE branch,
\* start at the annotation's line and never decrease, and the lines_consumed
\* that is returned is the number of lines read_line has read.
C17_ForwardOnly ==
    /\ NonDecreasing(td.reads)
    /\ td.reads # <<>> => td.reads[1] = annotation.line
    /\ pc = "returned" => result.line_count = LinesRead

\* a header of three lines or more was annotated: the look-ahead asked for a
\* line before read_line read it
C17_Witness ==
    /\ pc = "returned"
    /\ result.line_count >= 3
    /\ td.lookaheads >= 2
    /\ annotation.line > 0 \/ pass = 1
    /\ \E k \in 1..(Len(td.reads) - 1) : td.reads[k] = td.reads[k + 1]

(***************************************************************************)
(* The program under a scheduler that lets it run: a call that can take a  *)
(* step takes one.                                                         *)
(***************************************************************************)
\* the calls that are followed to their end: of the positional family the
\* calls with every inferred type, of the type strings the shorter ones
FairInputs ==
    (Inputs \ PositionalInputs)
    \cup {inp \in PositionalInputs : Len(inp.arg_types) = MaxTypes}
FairTexts ==
    TypeStrings \cup Nested(MaxDepth - 1) \cup {w \in NameTexts : Len(w) < MaxName}

Idle ==
    /\ src = <<>>
    /\ annotation = Unused
    /\ pc = "idle"
    /\ td = Unused
    /\ ga = Unused
    /\ slots = <<>>
    /\ result = Unused
    /\ pass = 0
    /\ first = Unused
    /\ ty = Unused
    /\ peer = Unused
    /\ ext = Unused
    /\ runner = Unused
    /\ handoff = Unused
    /\ conn = Unused

\* get_annotation(annotation, get_line) is called
Call ==
    /\ pc = "idle"
    /\ \E inp \in FairInputs : Resume(Called(inp))
    /\ pass' = 1
    /\ first' = [text |-> <<>>, line_count |-> 0, slots |-> <<>>]
    /\ UNCHANGED outside

\* a type string is handed to tokenize
TypeCall ==
    /\ pc = "idle"
    /\ \E text \in FairTexts, ignore_modules \in {{}, {<<"mod">>}} :
          ty' = NewType(text, ignore_modules)
    /\ pc' = "unused"
    /\ UNCHANGED <<src, annotation, td, ga, slots, result, pass, first, peer, ext, runner, handoff, conn>>

FairNext == Call \/ TypeCall \/ Next \/ TypeStep

\* the steps that call tokenize_definition, tokenize or the type parser, and
\* the states in which one of them is the step to take
Parsing == TokenizeDefinition \/ TokenizeSignature \/ Arguments \/ HandleEnd
           \/ TypeTokenize \/ TypeNext \/ TypeParse
AtParsing ==
    \/ pc \in {"tokenize_definition", "tokenize_signature", "arguments", "end"}
    \/ ty.pc \in {"tokenize", "parse"}

\* the other steps
Copying == Call \/ TypeCall \/ FindStart \/ FindSkips \/ ArgPlace \/ Trailing \/ SecondPass
           \/ TypeRender

\* the interpreter runs a call that can take a step: weak fairness of the
\* copying steps and of the parsing steps, the latter with AtParsing, the
\* guard of those steps, where WF_vars(Parsing) has ENABLED <<Parsing>>_vars
Fairness ==
    /\ WF_vars(Copying)
    /\ ([]<>(~AtParsing) \/ []<><<Parsing>>_vars)

FairSpec == Idle /\ [][FairNext]_vars /\ Fairness

(***************************************************************************)
(* C18: termination                                                        *)
(***************************************************************************)
\* get_annotation has returned or raised (the second call, when the first
\* returned), or the type string has been rendered or refused
Ended ==
    \/ pc = "raised"
    \/ pc = "returned" /\ pass = 2
    \/ ty.pc \in Final

\* an iteration that stays in its loop has moved the cursor of the loop
Advances ==
    /\ (pc = "find_start" /\ pc' = "find_start") => ga'.parser.i > ga.parser.i
    /\ (pc = "find_skips" /\ pc' = "find_skips") => ga'.argparser.i > ga.argparser.i
    /\ (pc = "arguments" /\ pc' = "arguments") => ga'.parser.i > ga.parser.i
    /\ (pc = "trailing" /\ pc' = "trailing") => ga'.parser.i > ga.parser.i
    /\ (ty.pc = "parse" /\ ty'.pc \in {"parse", "render"}) => ty'.parser.i > ty.parser.i

\* tokenize made one token for one character or more, and End
Consumes(text, tokens) == Len(tokens) <= Len(text) + 1

Tokenized ==
    /\ pc \in {"find_start", "find_skips", "arg_place", "arguments", "end", "trailing",
               "returned"} =>
          /\ \A k \in 1..Len(ga.arg_tokens) :
                Consumes(annotation.signature.arg_types[k], ga.arg_tokens[k])
          /\ Consumes(annotation.signature.return_type, ga.return_tokens)
    /\ ty.pc \in {"parse", "render", "returned"} => Consumes(ty.text, ty.parser.tokens)

\* C18: for every finite source and every signature get_annotation ends, with
\* a result or an error; tokenize uses up one character or more for each
\* token; and every iteration of the prefix copy, the argument pre-scan, the
\* argument walk, the trailing copy and the type parser (parse_type_list and
\* parse_type_dict_or_set within it) moves its token cursor forward or fails.
C18_Terminates == <>Ended /\ [][Advances]_vars /\ []Tokenized

\* the second call has returned after every loop of it was run: the pre-scan
\* passed a skipped argument and the walk annotated two arguments
C18_Witness ==
    /\ pc = "returned"
    /\ pass = 2
    /\ ga.skip_args # {}
    /\ ga.arg_place >= 2
    /\ Len(ga.arg_tokens) >= 2
    /\ ga.parser.i = Len(ga.parser.tokens)

(***************************************************************************)
(* extension.py: idlemypyextension.suggest from the statement that loads   *)
(* the annotations of the daemon's response.  A text is a sequence of      *)
(* lines and a line a sequence of atoms.  ext is [pc, suggest_replace,     *)
(* annotations, k, samples, line_count, lines, text, replace, deleted,     *)
(* inserted, exc]: annotations[j] is [samples, indent, outcome], outcome   *)
(* what get_annotation does for it ([exc, text, line_count]); k counts the *)
(* annotations the for loop has taken; deleted and inserted are what was   *)
(* done to the editor's text.                                              *)
(***************************************************************************)
MaxBatch == 3

ERROR_MARK == "Error generating suggestion: "
comment_prefix == "# types: "

\* the lines of the editor from the line of the first annotation on
Editor == <<<<"def f(a):">>, <<SP, SP, SP, SP, "pass">>, <<>>>>
\* self.text.get(f"{line}.0", f"{line + line_count}.0")[:-1]
Selection(line_count) == Take(Editor, IF line_count < Len(Editor) THEN line_count ELSE Len(Editor))

Outcome(exc, text, line_count) == [exc |-> exc, text |-> text, line_count |-> line_count]
Outcomes ==
    {Outcome("", <<<<"def f(a):">>>>, 1),
     Outcome("", <<<<"def f(a: int) -> None:">>>>, 1),
     Outcome("", <<<<"def f(a: str) -> None:">>>>, 1),
     Outcome("", <<<<"def f(a: str = '", ERROR_MARK, "') -> None:">>>>, 1),
     Outcome("Expected", <<>>, 0),
     Outcome("Reached End of File, expected end of definition", <<>>, 0)}
Counts == {1, 2}
Annotations == [samples : Counts, indent : {0}, outcome : Outcomes]
Batches == UNION {[1..n -> Annotations] : n \in 1..MaxBatch}

\* "Error generating suggestion: " in text
HasMark(text) == \E k \in 1..Len(text) : Contains(text[k], ERROR_MARK)

\* get_comment_line(indent, content)
get_comment_line(indent, content) == <<Spaces(indent) \o <<comment_prefix>> \o content>>

\* get_suggestion_text without the try statement: the exception leaves it
get_suggestion_text_Unguarded(entry) ==
    IF entry.outcome.exc # ""
    THEN [exc |-> entry.outcome.exc, text |-> NONE, line_count |-> 0]
    ELSE IF entry.outcome.text = Selection(entry.outcome.line_count)
    THEN [exc |-> "", text |-> NONE, line_count |-> entry.outcome.line_count]
    ELSE [exc |-> "", text |-> entry.outcome.text,
          line_count |-> entry.outcome.line_count]

\* get_suggestion_text: [exc, text, line_count], text NONE for None and exc
\* the exception that leaves it
get_suggestion_text(entry) ==
    IF entry.outcome.exc # ""
    THEN [exc |-> "",
          text |-> get_comment_line(entry.indent, <<ERROR_MARK, entry.outcome.exc>>),
          line_count |-> 1]
    ELSE IF entry.outcome.text = Selection(entry.outcome.line_count)
    THEN [exc |-> "", text |-> NONE, line_count |-> entry.outcome.line_count]
    ELSE [exc |-> "", text |-> entry.outcome.text,
          line_count |-> entry.outcome.line_count]

\* one iteration of "for annotation in annotations"
SuggestAnnotation ==
    /\ ext.pc = "annotations"
    /\ ext.k < Len(ext.annotations)
    /\ \E entry \in {ext.annotations[ext.k + 1]} :
       \E r \in {get_suggestion_text(entry)} :
          ext' = IF r.exc # "" THEN [ext EXCEPT !.pc = "raised", !.exc = r.exc]
                 ELSE IF r.text = NONE THEN [ext EXCEPT !.k = @ + 1]
                 ELSE [ext EXCEPT !.k = @ + 1,
                                  !.samples[entry.samples] = Append(@, r.text),
                                  !.line_count = @ + r.line_count]
    /\ UNCHANGED <<invocation, pass, first, ty, peer, runner, handoff, conn>>

\* the samples of count, those already in lines left out
RECURSIVE Distinct(_, _)
Distinct(lines, samples) ==
    IF samples = <<>> THEN lines
    ELSE Distinct(IF \E k \in 1..Len(lines) : lines[k] = Head(samples)
                  THEN lines ELSE Append(lines, Head(samples)),
                  Tail(samples))

\* "\n".join(lines)
RECURSIVE JoinLines(_)
JoinLines(lines) == IF lines = <<>> THEN <<>> ELSE Head(lines) \o JoinLines(Tail(lines))

\* order, lines, replace and text
SuggestOrder ==
    /\ ext.pc = "annotations"
    /\ ext.k = Len(ext.annotations)
    /\ \E lines \in {Distinct(Distinct(<<>>, ext.samples[2]), ext.samples[1])} :
          ext' = [ext EXCEPT !.pc = "compare",
                             !.lines = lines,
                             !.text = IF Len(lines) = 1 THEN lines[1] ELSE JoinLines(lines),
                             !.replace = /\ ext.suggest_replace
                                         /\ Len(lines) = 1
                                         /\ ~HasMark(lines[1])]
    /\ UNCHANGED <<invocation, pass, first, ty, peer, runner, handoff, conn>>

\* f"##{line}" for each line of text
Commented(text) == [k \in 1..Len(text) |-> <<"##">> \o text[k]]

\* the comparison with the editor's text, and the edit
SuggestInsert ==
    /\ ext.pc = "compare"
    /\ ext' = IF ext.text = <<>> \/ ext.text = Selection(ext.line_count)
              THEN [ext EXCEPT !.pc = "returned"]
              ELSE [ext EXCEPT !.pc = "returned",
                               !.deleted = ext.replace,
                               !.inserted = IF ~ext.replace /\ ~HasMark(ext.text)
                                            THEN Commented(ext.text) ELSE ext.text]
    /\ UNCHANGED <<invocation, pass, first, ty, peer, runner, handoff, conn>>

SuggestInit ==
    /\ \E annotations \in Batches, suggest_replace \in BOOLEAN :
          ext = [pc |-> "annotations", suggest_replace |-> suggest_replace,
                 annotations |-> annotations, k |-> 0,
                 samples |-> [count \in Counts |-> <<>>], line_count |-> 0,
                 lines |-> <<>>, text |-> <<>>, replace |-> FALSE,
                 deleted |-> FALSE, inserted |-> <<>>, exc |-> ""]
    /\ src = <<>>
    /\ annotation = Unused
    /\ pc = "unused"
    /\ td = Unused
    /\ ga = Unused
    /\ slots = <<>>
    /\ result = Unused
    /\ pass = 0
    /\ first = Unused
    /\ ty = Unused
    /\ peer = Unused
    /\ runner = Unused
    /\ handoff = Unused
    /\ conn = Unused

SuggestNext == SuggestAnnotation \/ SuggestOrder \/ SuggestInsert

SuggestSpec == SuggestInit /\ [][SuggestNext]_vars

(***************************************************************************)
(* C19: one failure in a batch                                             *)
(***************************************************************************)
\* the diagnostic get_suggestion_text makes of the failure of an annotation
Diagnostic(entry) ==
    get_comment_line(entry.indent, <<ERROR_MARK, entry.outcome.exc>>)

Among(text, lines) == \E k \in 1..Len(lines) : lines[k] = text

C25_HeaderReplaced ==
    (ext.pc = "returned" /\ ext.deleted) =>
        \E j \in 1..Len(ext.annotations) :
            /\ ext.annotations[j].outcome.exc = ""
            /\ ext.annotations[j].outcome.text = ext.inserted
            /\ ext.line_count = ext.annotations[j].outcome.line_count

(***************************************************************************)
(* tktrio.py: a TkTrioRunner on the event loop of its host.  runner is     *)
(* [run_status, nursery, cancel_called, trio, tasks, thread_runner, queue, *)
(* calls, cancels, raised, exc]: nursery tells that self.nursery is set,   *)
(* cancel_called is nursery.cancel_scope.cancel_called of the nursery that *)
(* was opened last, trio is the guest run ("none", "starting", "running"), *)
(* tasks the tasks in the nursery, thread_runner is                        *)
(* self.thread_runner.running, queue the callbacks the host loop has still *)
(* to call, calls and cancels count the calls made from outside, raised    *)
(* tells that cancel_scope.cancel() raised in the last of them, and exc is *)
(* the exception that left a callback.                                     *)
(***************************************************************************)
MaxCalls == 2
MaxCancels == 2
MaxCloses == 2

\* self.schedule_task_not_threadsafe(function)
schedule_task_not_threadsafe(r, function) == [r EXCEPT !.queue = Append(@, function)]

\* cancel_current_task without the call of nursery.cancel_scope.cancel()
cancel_current_task_NoCancel(r, raises, called) ==
    IF r.run_status = "NO_TASK" THEN r
    ELSE IF r.run_status = "TRIO_STARTING"
    THEN schedule_task_not_threadsafe(r, "cancel_current_task")
    ELSE IF r.run_status = "TRIO_RUNNING_CANCELING" THEN r
    ELSE [r EXCEPT !.run_status = "TRIO_RUNNING_CANCELED"]

\* cancel_current_task: raises tells that nursery.cancel_scope.cancel()
\* raises RuntimeError, and called what it has made of cancel_called by then
cancel_current_task(r, raises, called) ==
    IF r.run_status = "NO_TASK" THEN r
    ELSE IF r.run_status = "TRIO_STARTING"
    THEN schedule_task_not_threadsafe(r, "cancel_current_task")
    ELSE IF r.run_status = "TRIO_RUNNING_CANCELING" THEN r
    ELSE IF raises
    THEN [r EXCEPT !.run_status = "TRIO_RUNNING_CANCELING",
                   !.cancel_called = @ \/ called,
                   !.thread_runner = FALSE,
                   !.raised = TRUE]
    ELSE [r EXCEPT !.run_status = "TRIO_RUNNING_CANCELED", !.cancel_called = TRUE]

\* _done_callback(outcome)
done_callback(r) ==
    IF r.run_status \notin {"TRIO_RUNNING_CANCELED", "TRIO_RUNNING"}
    THEN [r EXCEPT !.thread_runner = FALSE, !.trio = "none", !.tasks = 0,
                   !.exc = "AssertionError"]
    ELSE [r EXCEPT !.thread_runner = FALSE, !.trio = "none", !.tasks = 0,
                   !.run_status = "NO_TASK", !.nursery = FALSE]

\* evil_does_trio_have_runner(): a guest run is under way in the host thread
evil_does_trio_have_runner(r) == r.trio # "none"

\* _start_async_task(function)
start_async_task(r) ==
    IF evil_does_trio_have_runner(r) THEN r
    ELSE schedule_task_not_threadsafe(
             [r EXCEPT !.thread_runner = TRUE, !.run_status = "TRIO_STARTING",
                       !.trio = "starting", !.runs = @ + 1],
             "guest_tick")

\* TkTrioRunner.__call__(function) without its test of received_loop_close_request
call_IgnoresClose(r) ==
    IF r.run_status = "TRIO_RUNNING_CANCELING" THEN r
    ELSE IF r.run_status \in {"TRIO_RUNNING_CANCELED", "TRIO_STARTING"}
    THEN schedule_task_not_threadsafe(r, "__call__")
    ELSE IF r.run_status = "TRIO_RUNNING" THEN [r EXCEPT !.tasks = @ + 1]
    ELSE start_async_task([r EXCEPT !.installed_proto_override = TRUE])

\* TkTrioRunner.__call__(function)
call(r) ==
    IF r.received_loop_close_request THEN r
    ELSE IF r.run_status = "TRIO_RUNNING_CANCELING" THEN r
    ELSE IF r.run_status \in {"TRIO_RUNNING_CANCELED", "TRIO_STARTING"}
    THEN schedule_task_not_threadsafe(r, "__call__")
    ELSE IF r.run_status = "TRIO_RUNNING" THEN [r EXCEPT !.tasks = @ + 1]
    ELSE start_async_task([r EXCEPT !.installed_proto_override = TRUE])

\* the rest of shutdown_then_call without its test of run_status
ShutdownEnd_NoWait(r) ==
    [r EXCEPT !.installed_proto_override = FALSE, !.closes = @ + 1]

\* the rest of shutdown_then_call, from "if self.run_status != RunStatus.NO_TASK"
ShutdownEnd(r) ==
    IF r.run_status # "NO_TASK"
    THEN schedule_task_not_threadsafe(r, "shutdown_then_call")
    ELSE [r EXCEPT !.installed_proto_override = FALSE, !.closes = @ + 1]

\* shutdown_then_call(), the WM_DELETE_WINDOW handler of get_del_window_proto
shutdown_then_call(r, raises, called) ==
    ShutdownEnd(
        IF r.run_status = "TRIO_RUNNING_CANCELING"
        THEN [r EXCEPT !.received_loop_close_request = TRUE, !.run_status = "NO_TASK"]
        ELSE IF r.run_status = "TRIO_RUNNING"
        THEN cancel_current_task([r EXCEPT !.received_loop_close_request = TRUE],
                                 raises, called)
        ELSE [r EXCEPT !.received_loop_close_request = TRUE])

\* a tick of the guest run: run_nursery up to its first checkpoint, or the
\* tasks up to their next one; finish tells that the tasks return there
guest_tick(r, finish) ==
    IF r.trio = "starting"
    THEN IF r.run_status # "TRIO_STARTING"
         THEN done_callback([r EXCEPT !.exc = "AssertionError"])
         ELSE schedule_task_not_threadsafe(
                  [r EXCEPT !.nursery = TRUE, !.cancel_called = FALSE,
                            !.run_status = "TRIO_RUNNING", !.tasks = 1, !.trio = "running"],
                  "guest_tick")
    ELSE IF r.trio = "running"
    THEN IF r.cancel_called \/ finish
         THEN done_callback(r)
         ELSE schedule_task_not_threadsafe(r, "guest_tick")
    ELSE r

\* trio_runner(function), called from outside the host loop's callbacks
RunnerCall ==
    /\ runner.pc = "mainloop"
    /\ runner.calls < MaxCalls
    /\ runner' = [call(runner) EXCEPT !.calls = @ + 1]
    /\ UNCHANGED <<invocation, pass, first, ty, peer, ext, handoff, conn>>

\* trio_runner.cancel_current_task(), called from outside
RunnerCancel ==
    /\ runner.pc = "mainloop"
    /\ runner.cancels < MaxCancels
    /\ \E raises \in BOOLEAN, called \in BOOLEAN :
          runner' = [cancel_current_task([runner EXCEPT !.raised = FALSE], raises, called)
                        EXCEPT !.cancels = @ + 1]
    /\ UNCHANGED <<invocation, pass, first, ty, peer, ext, handoff, conn>>

\* root.update(): the host loop calls the callback it was given first
RunnerUpdate ==
    /\ runner.pc = "mainloop"
    /\ runner.queue # <<>>
    /\ \E r \in {[runner EXCEPT !.queue = Tail(@)]}, finish \in BOOLEAN,
          raises \in BOOLEAN, called \in BOOLEAN :
          runner' = CASE Head(runner.queue) = "guest_tick" -> guest_tick(r, finish)
                      [] Head(runner.queue) = "__call__" -> call(r)
                      [] Head(runner.queue) = "shutdown_then_call" ->
                             shutdown_then_call(r, raises, called)
                      [] OTHER -> cancel_current_task(r, raises, called)
    /\ UNCHANGED <<invocation, pass, first, ty, peer, ext, handoff, conn>>

\* the window is asked to close: the host calls the WM_DELETE_WINDOW handler
RunnerClose ==
    /\ runner.pc = "mainloop"
    /\ runner.close_requests < MaxCloses
    /\ \E raises \in BOOLEAN, called \in BOOLEAN :
          runner' = [shutdown_then_call(runner, raises, called)
                        EXCEPT !.close_requests = @ + 1]
    /\ UNCHANGED <<invocation, pass, first, ty, peer, ext, handoff, conn>>

RunnerInit ==
    /\ runner = [pc |-> "mainloop", run_status |-> "NO_TASK", nursery |-> FALSE,
                 cancel_called |-> FALSE, trio |-> "none", tasks |-> 0,
                 thread_runner |-> FALSE, queue |-> <<>>, calls |-> 0, cancels |-> 0,
                 raised |-> FALSE, exc |-> "", runs |-> 0,
                 received_loop_close_request |-> FALSE, installed_proto_override |-> FALSE,
                 closes |-> 0, close_requests |-> 0]
    /\ src = <<>>
    /\ annotation = Unused
    /\ pc = "unused"
    /\ td = Unused
    /\ ga = Unused
    /\ slots = <<>>
    /\ result = Unused
    /\ pass = 0
    /\ first = Unused
    /\ ty = Unused
    /\ peer = Unused
    /\ ext = Unused
    /\ handoff = Unused
    /\ conn = Unused

RunnerNext == RunnerCall \/ RunnerCancel \/ RunnerUpdate

\* the host loop goes on calling the callbacks it was given
RunnerSpec == RunnerInit /\ [][RunnerNext]_vars /\ WF_vars(RunnerUpdate)

CloseNext == RunnerCall \/ RunnerCancel \/ RunnerUpdate \/ RunnerClose

\* the runner with a window that may be asked to close
CloseSpec == RunnerInit /\ [][CloseNext]_vars /\ WF_vars(RunnerUpdate)

(***************************************************************************)
(* C20: cancelling the task that runs                                      *)
(***************************************************************************)
\* what the runner and the guest run hold, the counters of the calls aside
Held(r) ==
    <<r.run_status, r.nursery, r.cancel_called, r.trio, r.tasks, r.thread_runner, r.queue,
      r.exc>>

\* this step is a call of cancel_current_task from outside
Cancelling == runner'.cancels = runner.cancels + 1

\* cancel_current_task at TRIO_RUNNING, cancel() returning: CANCELED at once
CancelledAtOnce ==
    (Cancelling /\ runner.run_status = "TRIO_RUNNING" /\ ~runner'.raised) =>
       /\ runner'.run_status = "TRIO_RUNNING_CANCELED"
       /\ runner'.cancel_called

\* cancel_current_task at TRIO_RUNNING, cancel() raising: CANCELING
CancelFailed ==
    (Cancelling /\ runner.run_status = "TRIO_RUNNING" /\ runner'.raised) =>
       /\ runner'.run_status = "TRIO_RUNNING_CANCELING"
       /\ ~runner'.thread_runner

\* cancel_current_task at NO_TASK
NothingToCancel ==
    (Cancelling /\ runner.run_status = "NO_TASK") => Held(runner') = Held(runner)

ArgumentNames(tokens) ==
    LET names == SelectSeq(tokens, LAMBDA t : t.cls = "ArgumentName")
    IN [k \in 1..Len(names) |-> names[k].text]

\* the names of the arguments the source text declares, in order
SourceNames ==
    LET items == SelectSeq(SourceArguments, LAMBDA item : ~IsMarker(item))
    IN [k \in 1..Len(items) |-> <<items[k][NameIndex(items[k])]>>]

\* default_arg returns to 0 only where a default value ends: the token that
\* makes it 0 leaves the tokenizer in the argument list itself or after it,
\* never inside a bracket of the default value
LeavesAtTopLevel ==
    (pass = 1 /\ pass' = 1 /\ td.default_arg # 0 /\ td'.default_arg = 0) => td'.brackets <= 1

\* C23: default_arg is set to 1 by "=" and returns to 0 only at the
\* top-level comma that ends the argument or at the bracket that closes the
\* argument list; every identifier inside a default value is classified
\* ArgumentDefault, never ArgumentName, so that the ArgumentName tokens are
\* the names of the arguments and nothing else.
C23_DefaultDepth ==
    /\ [][LeavesAtTopLevel]_vars
    /\ []((pass = 1 /\ td.done /\ IsComplete(SourceText)) =>
             ArgumentNames(td.tokens) = SourceNames)

(***************************************************************************)
(* C24: "@" before the def keyword                                         *)
(***************************************************************************)
\* the source text has an "@" before its first def keyword
AtBeforeDef ==
    /\ Contains(SourceText, "@")
    /\ Contains(SourceText, "def") => FirstIndex(SourceText, "@") < FirstIndex(SourceText, "def")

\* C24: an "@" operator token before the def keyword is accepted by
\* tokenize_definition as a separator of its own: tokenize_definition
\* raises no ParseError before it has seen def, no ArgumentDefault token
\* takes the "@" in, and the tokens it has by then hold a Separator "@".
C24_DecoratorAccepted ==
    (pass = 1 /\ AtBeforeDef) =>
        /\ ~(td.exc = "ParseError" /\ ~td.hasdef)
        /\ \A k \in 1..Len(td.tokens) :
              td.tokens[k].cls = "ArgumentDefault" => ~Contains(td.tokens[k].text, "@")
        /\ td.hasdef =>
              \E k \in 1..Len(td.tokens) :
                  isinstance(td.tokens[k], "Separator") /\ td.tokens[k].text = <<"@">>

(***************************************************************************)
(* C30: the module of the file itself                                      *)
(***************************************************************************)
\* mod.Foo, a type of the module that the file /x/mod.py holds
OwnModuleType == <<"mod", ".", "Foo">>

\* the first argument has no annotation in the source and the daemon
\* inferred mod.Foo for it
ArgumentInferredOwn ==
    /\ Len(SourceArguments) = 1
    /\ ~IsMarker(SourceArguments[1])
    /\ ~HasAnnotation(SourceArguments[1])
    /\ Len(annotation.signature.arg_types) = 1
    /\ annotation.signature.arg_types[1] = OwnModuleType

\* the source has no return annotation and the daemon inferred mod.Foo
ReturnInferredOwn ==
    /\ ~HasReturnAnnotation(SourceText)
    /\ annotation.signature.return_type = OwnModuleType

\* C30: with ignore_modules taken from the stem of the annotation's path
\* (mod for /x/mod.py), get_annotation writes the inferred type mod.Foo as
\* Foo both where it becomes the annotation of an argument and where it
\* becomes the return annotation.
C30_SelfModuleStripped ==
    (pc = "returned" /\ pass = 1 /\ IgnoreModules(annotation.path) = {<<"mod">>}) =>
        /\ ArgumentInferredOwn =>
              /\ Len(OutputArguments) = 1
              /\ AnnotationOf(OutputArguments[1]) = <<"Foo">>
        /\ ReturnInferredOwn =>
              ReturnAnnotationOf(result.text \o <<NLCH>>) = <<"Foo">>

(***************************************************************************)
(* C22: the window-close protocol                                          *)
(***************************************************************************)
\* this step calls the close protocol that shutdown_then_call wraps
Closing == runner'.closes = runner.closes + 1

\* this step is a call of shutdown_then_call, by the window or by the host loop
HandlerRuns ==
    \/ runner'.close_requests = runner.close_requests + 1
    \/ /\ runner.queue # <<>>
       /\ Head(runner.queue) = "shutdown_then_call"
       /\ runner'.calls = runner.calls
       /\ runner'.cancels = runner.cancels
       /\ runner' # runner

\* shutdown_then_call is on the queue of the host loop
Rescheduled(r) == \E k \in 1..Len(r.queue) : r.queue[k] = "shutdown_then_call"

\* the close protocol is called with run_status NO_TASK only
ClosedIdle == Closing => runner'.run_status = "NO_TASK"

\* a run that is starting, running or cancelled: the handler cancels what
\* runs and calls itself again later
WaitsForRun ==
    (HandlerRuns /\ runner.run_status \in {"TRIO_STARTING", "TRIO_RUNNING",
                                           "TRIO_RUNNING_CANCELED"}) =>
       /\ ~Closing
       /\ Rescheduled(runner')
       /\ runner'.received_loop_close_request
       /\ runner.run_status = "TRIO_RUNNING" =>
             runner'.run_status \in {"TRIO_RUNNING_CANCELED", "TRIO_RUNNING_CANCELING"}
       /\ runner.run_status # "TRIO_RUNNING" => runner'.run_status = runner.run_status

\* no task, or a cancel that failed: the close protocol is called at once
ClosesAtOnce ==
    (HandlerRuns /\ runner.run_status \in {"NO_TASK", "TRIO_RUNNING_CANCELING"}) =>
       /\ Closing
       /\ runner'.run_status = "NO_TASK"
       /\ ~runner'.installed_proto_override

Starting == runner'.runs = runner.runs + 1

\* C26: start_guest_run is called only with run_status NO_TASK and no guest
\* run under way, so that no call of __call__ or cancel_current_task, no
\* callback of the host loop and no call of the close handler starts a
\* second run before the done callback of the first; and __call__ starts
\* no run once the host loop was asked to close.
C26_OneRun ==
    [][Starting =>
          /\ runner.run_status = "NO_TASK"
          /\ runner.trio = "none"
          /\ ~runner.received_loop_close_request
          /\ runner'.run_status = "TRIO_STARTING"]_vars

\* the close handler has made run_status NO_TASK while the guest run goes
\* on, __call__ was called a second time, and there is still one run
C26_Witness ==
    /\ runner.runs = 1
    /\ runner.calls = 2
    /\ runner.trio = "running"
    /\ runner.run_status = "NO_TASK"
    /\ runner.received_loop_close_request
    /\ runner.tasks = 1
    /\ \A k \in 1..Len(runner.queue) : runner.queue[k] # "__call__"

(***************************************************************************)
(* C28: the assertion of _done_callback                                    *)
(***************************************************************************)
\* this step ends the guest run: Trio calls _done_callback
DoneFires == runner.trio # "none" /\ runner'.trio = "none"

\* C28: whenever _done_callback is called, run_status is TRIO_RUNNING or
\* TRIO_RUNNING_CANCELED, so that its assertion holds; afterwards
\* run_status is NO_TASK and the thread runner is stopped.
C28_DoneAsserted ==
    [][DoneFires =>
          /\ runner.run_status \in {"TRIO_RUNNING", "TRIO_RUNNING_CANCELED"}
          /\ runner'.exc # "AssertionError"
          /\ runner'.run_status = "NO_TASK"
          /\ ~runner'.thread_runner]_vars

(***************************************************************************)
(* tktrio.py: a ThreadRunner between the threads that call it and the host *)
(* loop.  handoff is [pc, not_empty, running, run_queue, tasks, callers,   *)
(* starts, stops, cancels]: pc is where the host thread is ("mainloop", or *)
(* "check_events" at the test of its while loop), not_empty the local of   *)
(* check_events, run_queue the threads whose (function, response_queue) is *)
(* on self.run_queue, tasks the number of check_events callbacks the host  *)
(* loop has still to call, callers[t] what thread t does: [pc, raises,     *)
(* executed, response, outcome], with raises telling that its function     *)
(* raises, executed how often the function was called, response its        *)
(* response_queue and outcome how ThreadRunner.__call__ ended; cancels     *)
(* counts the calls of cancel_current_task by schedule_task_threadsafe.    *)
(***************************************************************************)
MaxStarts == 2
MaxStops == 2

\* the threads that pass a function: the host's own thread and two others
Threads == {"host", "t1", "t2"}

\* queue.Queue(1)
QueueSize == 1

\* a thread before it calls schedule_task_threadsafe
NoCall == [pc |-> "idle", raises |-> FALSE, executed |-> 0, response |-> <<>>, outcome |-> ""]

\* the host thread is free to run the callbacks of its loop
HostFree(h) == h.callers["host"].pc \notin {"put", "get"}

\* thread t may take a step of its own
MayRun(h, t) == t = "host" => h.pc = "mainloop"

\* schedule_task_threadsafe after self.thread_runner(function) came back:
\* an exception is logged and cancel_current_task called
schedule_task_threadsafe(h, t, outcome) ==
    [h EXCEPT !.callers[t].pc = "done",
              !.callers[t].outcome = outcome,
              !.cancels = IF outcome = "returned" THEN @ ELSE @ + 1]

\* ThreadRunner.__call__ up to run_queue.put
ThreadRunnerCall(h, t, raises) ==
    IF ~h.running
    THEN schedule_task_threadsafe([h EXCEPT !.callers[t].raises = raises], t, "RuntimeError")
    ELSE [h EXCEPT !.callers[t].pc = "put", !.callers[t].raises = raises]

\* run_queue.put((function, response_queue), True, 2) with room in the queue
ThreadRunnerPut(h, t) ==
    [h EXCEPT !.run_queue = Append(@, t), !.callers[t].pc = "get"]

\* response_queue.get(True, None) and the statements after it
ThreadRunnerGet(h, t) ==
    schedule_task_threadsafe([h EXCEPT !.callers[t].response = Tail(@)], t,
                             IF Head(h.callers[t].response) THEN "Exception" ELSE "returned")

\* start_run(tk)
start_run(h) == [h EXCEPT !.running = TRUE, !.tasks = @ + 1]

\* stop_run()
stop_run(h) == [h EXCEPT !.running = FALSE]

\* one test of "while self.running" in check_events and what follows it
check_events(h) ==
    IF h.running /\ h.run_queue # <<>>
    THEN [h EXCEPT !.run_queue = Tail(@),
                   !.not_empty = TRUE,
                   !.callers[Head(h.run_queue)].executed = @ + 1,
                   !.callers[Head(h.run_queue)].response =
                       Append(@, h.callers[Head(h.run_queue)].raises)]
    ELSE [h EXCEPT !.pc = "mainloop",
                   !.tasks = IF h.not_empty \/ h.running THEN @ + 1 ELSE @]

\* a thread calls trio_runner.schedule_task_threadsafe(function)
HandoffCall ==
    /\ handoff.pc \in {"mainloop", "check_events"}
    /\ \E t \in Threads, raises \in BOOLEAN :
          /\ handoff.callers[t].pc = "idle"
          /\ MayRun(handoff, t)
          /\ handoff' = ThreadRunnerCall(handoff, t, raises)
    /\ UNCHANGED <<invocation, pass, first, ty, peer, ext, runner, conn>>

\* run_queue.put returns
HandoffPut ==
    /\ \E t \in Threads :
          /\ handoff.callers[t].pc = "put"
          /\ Len(handoff.run_queue) < QueueSize
          /\ handoff' = ThreadRunnerPut(handoff, t)
    /\ UNCHANGED <<invocation, pass, first, ty, peer, ext, runner, conn>>

\* run_queue.put raises queue.Full: the queue had no room for two seconds
HandoffFull ==
    /\ \E t \in Threads :
          /\ handoff.callers[t].pc = "put"
          /\ Len(handoff.run_queue) >= QueueSize
          /\ handoff' = schedule_task_threadsafe(handoff, t, "Full")
    /\ UNCHANGED <<invocation, pass, first, ty, peer, ext, runner, conn>>

\* response_queue.get returns
HandoffGet ==
    /\ \E t \in Threads :
          /\ handoff.callers[t].pc = "get"
          /\ handoff.callers[t].response # <<>>
          /\ handoff' = ThreadRunnerGet(handoff, t)
    /\ UNCHANGED <<invocation, pass, first, ty, peer, ext, runner, conn>>

\* the host loop calls a check_events it was given
HandoffUpdate ==
    /\ handoff.pc = "mainloop"
    /\ HostFree(handoff)
    /\ handoff.tasks > 0
    /\ handoff' = [handoff EXCEPT !.tasks = @ - 1, !.pc = "check_events", !.not_empty = FALSE]
    /\ UNCHANGED <<invocation, pass, first, ty, peer, ext, runner, conn>>

\* check_events goes on
HandoffCheck ==
    /\ handoff.pc = "check_events"
    /\ handoff' = check_events(handoff)
    /\ UNCHANGED <<invocation, pass, first, ty, peer, ext, runner, conn>>

\* _start_async_task starts the thread runner, from the host thread
HandoffStart ==
    /\ handoff.pc = "mainloop"
    /\ HostFree(handoff)
    /\ ~handoff.running
    /\ handoff.starts < MaxStarts
    /\ handoff' = [start_run(handoff) EXCEPT !.starts = @ + 1]
    /\ UNCHANGED <<invocation, pass, first, ty, peer, ext, runner, conn>>

\* _done_callback, or a cancel_current_task that failed, stops it
HandoffStop ==
    /\ handoff.pc \in {"mainloop", "check_events"}
    /\ handoff.running
    /\ handoff.stops < MaxStops
    /\ handoff' = [stop_run(handoff) EXCEPT !.stops = @ + 1]
    /\ UNCHANGED <<invocation, pass, first, ty, peer, ext, runner, conn>>

HandoffInit ==
    /\ handoff = [pc |-> "mainloop", not_empty |-> FALSE, running |-> FALSE, run_queue |-> <<>>,
                  tasks |-> 0, callers |-> [t \in Threads |-> NoCall],
                  starts |-> 0, stops |-> 0, cancels |-> 0]
    /\ src = <<>>
    /\ annotation = Unused
    /\ pc = "unused"
    /\ td = Unused
    /\ ga = Unused
    /\ slots = <<>>
    /\ result = Unused
    /\ pass = 0
    /\ first = Unused
    /\ ty = Unused
    /\ peer = Unused
    /\ ext = Unused
    /\ runner = Unused
    /\ conn = Unused

HandoffNext ==
    \/ HandoffCall
    \/ HandoffPut
    \/ HandoffFull
    \/ HandoffGet
    \/ HandoffUpdate
    \/ HandoffCheck
    \/ HandoffStart
    \/ HandoffStop

\* every thread goes on running, and the host loop goes on calling the
\* callbacks it was given
HandoffSpec ==
    /\ HandoffInit
    /\ [][HandoffNext]_vars
    /\ WF_vars(HandoffPut)
    /\ WF_vars(HandoffGet)
    /\ WF_vars(HandoffUpdate)
    /\ WF_vars(HandoffCheck)

(***************************************************************************)
(* C21: schedule_task_threadsafe                                           *)
(***************************************************************************)
\* C21: a function passed to schedule_task_threadsafe has been called
\* exactly once when schedule_task_threadsafe has returned and the host
\* loop has no callback left to call.
C21_CalledOnce ==
    \A t \in Threads :
        (/\ handoff.callers[t].pc = "done"
         /\ handoff.pc = "mainloop"
         /\ handoff.tasks = 0)
        => handoff.callers[t].executed = 1

(***************************************************************************)
(* C29: the hand-off is live                                               *)
(***************************************************************************)
\* C29: every ThreadRunner.__call__ that has put its function on run_queue
\* returns in the end, the function called exactly once by check_events and
\* its outcome handed to the caller.
C29_HandoffLive ==
    \A t \in Threads :
        (handoff.callers[t].pc = "get")
        ~> (/\ handoff.callers[t].pc = "done"
            /\ handoff.callers[t].executed = 1
            /\ handoff.callers[t].outcome =
                   IF handoff.callers[t].raises THEN "Exception" ELSE "returned")

(***************************************************************************)
(* client.py: _request_linux after it has sent its request.  A byte string *)
(* is a sequence of atoms, " " the byte that ends a frame and every other  *)
(* atom a piece of the base64 text of a JSON object.  conn is [pc,         *)
(* timeout, frames, tosend, wire, closed, received, buffer, all_responses, *)
(* result]: frames is the number of frames the daemon answers with, tosend *)
(* the bytes it has still to send, wire the bytes it has sent and the      *)
(* client has not received, closed tells that it has closed the socket,    *)
(* received is every byte receive_some has returned, and result the        *)
(* Response that _request_linux returns, a set of <<key, value>>.          *)
(***************************************************************************)
MaxFrames == 2

OutAtoms == <<"out:1", "out:2", "out:3", "out:4">>

\* the items of the JSON object that a piece of base64 text holds
Items ==
    [a \in {OutAtoms[k] : k \in 1..Len(OutAtoms)} \cup {"stdout:s", "final:true"} |->
        IF a = "stdout:s" THEN <<"stdout", "s">>
        ELSE IF a = "final:true" THEN <<"final", "true">>
        ELSE <<"out", a>>]

\* the frame of the k-th response of n: base64.encodebytes(json) + b" "
FrameOf(k, n) ==
    <<OutAtoms[k], "stdout:s">> \o (IF k = n THEN <<"final:true">> ELSE <<>>) \o <<" ">>

\* the frames of n responses, one after the other
RECURSIVE Stream(_, _)
Stream(k, n) == IF k > n THEN <<>> ELSE FrameOf(k, n) \o Stream(k + 1, n)

\* buffer.find(b" "): the index of the first " " from 1, 0 when there is none
SpacePos(buffer) ==
    IF \E k \in 1..Len(buffer) : buffer[k] = " "
    THEN CHOOSE k \in 1..Len(buffer) : buffer[k] = " " /\ \A j \in 1..(k - 1) : buffer[j] # " "
    ELSE 0

\* find_frame_in_buffer(buffer): [buffer, frame], frame NONE when incomplete
find_frame_in_buffer(buffer) ==
    IF SpacePos(buffer) = 0
    THEN [buffer |-> buffer, frame |-> NONE]
    ELSE [buffer |-> SubSeq(buffer, SpacePos(buffer) + 1, Len(buffer)),
          frame |-> SubSeq(buffer, 1, SpacePos(buffer) - 1)]

\* _read_request_response_json(base64.decodebytes(frame))
read_request_response_json(frame) == {Items[frame[k]] : k \in 1..Len(frame)}

\* dict(ChainMap(*all_responses).items()): the first response with a key gives its value
ChainMap(all_responses) ==
    {item \in UNION {all_responses[k] : k \in 1..Len(all_responses)} :
        \E k \in 1..Len(all_responses) :
            /\ item \in all_responses[k]
            /\ \A j \in 1..(k - 1) : \A other \in all_responses[j] : other[1] # item[1]}

NoDataError == {<<"error", "No data received, IPC socket connection closed.">>}
TimedOutError == {<<"error", "IPC socket connection timed out">>}

\* the statements of the while loop after "more" was received
RequestLoop(c, more) ==
    IF more = <<>>
    THEN [c EXCEPT !.pc = "returned", !.result = NoDataError]
    ELSE Let(find_frame_in_buffer(c.buffer \o more), LAMBDA found :
           IF found.frame = NONE
           THEN [c EXCEPT !.buffer = found.buffer, !.received = @ \o more]
           ELSE Let(read_request_response_json(found.frame), LAMBDA response :
                  Let(Append(c.all_responses, response \ {<<"final", "true">>}), LAMBDA all :
                    [c EXCEPT !.buffer = found.buffer,
                              !.received = @ \o more,
                              !.all_responses = all,
                              !.pc = IF <<"final", "true">> \in response
                                     THEN "returned" ELSE "receive",
                              !.result = IF <<"final", "true">> \in response
                                         THEN ChainMap(all) ELSE @])))

\* the daemon sends some more of its bytes
ConnSend ==
    /\ conn.pc = "receive"
    /\ ~conn.closed
    /\ \E n \in 1..Len(conn.tosend) :
          conn' = [conn EXCEPT !.wire = @ \o SubSeq(conn.tosend, 1, n),
                               !.tosend = SubSeq(@, n + 1, Len(@))]
    /\ UNCHANGED <<invocation, pass, first, ty, peer, ext, runner, handoff>>

\* the daemon closes the socket, at the end of its answer or before
ConnClose ==
    /\ conn.pc = "receive"
    /\ ~conn.closed
    /\ conn' = [conn EXCEPT !.closed = TRUE, !.tosend = <<>>]
    /\ UNCHANGED <<invocation, pass, first, ty, peer, ext, runner, handoff>>

\* connection.receive_some() returns some of the bytes that have come in,
\* and the loop goes on with them
ConnReceive ==
    /\ conn.pc = "receive"
    /\ \E n \in 1..Len(conn.wire) :
          conn' = RequestLoop([conn EXCEPT !.wire = SubSeq(@, n + 1, Len(@))],
                              SubSeq(conn.wire, 1, n))
    /\ UNCHANGED <<invocation, pass, first, ty, peer, ext, runner, handoff>>

\* connection.receive_some() returns b"": the socket is closed and empty
ConnEOF ==
    /\ conn.pc = "receive"
    /\ conn.wire = <<>>
    /\ conn.closed
    /\ conn' = RequestLoop(conn, <<>>)
    /\ UNCHANGED <<invocation, pass, first, ty, peer, ext, runner, handoff>>

\* trio.fail_after(timeout) ends the wait for bytes that do not come
ConnTimeout ==
    /\ conn.pc = "receive"
    /\ conn.timeout
    /\ conn.wire = <<>>
    /\ ~conn.closed
    /\ conn' = [conn EXCEPT !.pc = "returned", !.result = TimedOutError]
    /\ UNCHANGED <<invocation, pass, first, ty, peer, ext, runner, handoff>>

ConnInit ==
    /\ \E n \in 1..MaxFrames, timeout \in BOOLEAN :
          conn = [pc |-> "receive", timeout |-> timeout, frames |-> n,
                  tosend |-> Stream(1, n), wire |-> <<>>, closed |-> FALSE,
                  received |-> <<>>, buffer |-> <<>>, all_responses |-> <<>>, result |-> {}]
    /\ src = <<>>
    /\ annotation = Unused
    /\ pc = "unused"
    /\ td = Unused
    /\ ga = Unused
    /\ slots = <<>>
    /\ result = Unused
    /\ pass = 0
    /\ first = Unused
    /\ ty = Unused
    /\ peer = Unused
    /\ ext = Unused
    /\ runner = Unused
    /\ handoff = Unused

ConnNext == ConnSend \/ ConnClose \/ ConnReceive \/ ConnEOF \/ ConnTimeout

ConnSpec == ConnInit /\ [][ConnNext]_vars

(***************************************************************************)
(* C27: the frames of the daemon                                           *)
(***************************************************************************)
\* the number of whole frames among the bytes
Spaces_in(bytes) == Cardinality({k \in 1..Len(bytes) : bytes[k] = " "})

\* the frame with final=true has been received whole
FinalReceived == Spaces_in(conn.received) = conn.frames

\* C27: every whole frame that was received is decoded and processed: when
\* the frame with final=true has been received, however receive_some has
\* cut the bytes, _request_linux returns the merged responses of all
\* frames, and it returns "No data received, IPC socket connection closed."
\* only when the connection was closed before that frame was received.
C27_FramesProcessed ==
    /\ (conn.pc = "returned" /\ FinalReceived) =>
          /\ Len(conn.all_responses) = conn.frames
          /\ conn.result =
                ChainMap([k \in 1..conn.frames |->
                             read_request_response_json(
                                 SubSeq(FrameOf(k, conn.frames), 1,
                                        Len(FrameOf(k, conn.frames)) - 1))
                             \ {<<"final", "true">>}])
    /\ (conn.pc = "returned" /\ conn.result = NoDataError) => ~FinalReceived

====
